---- MODULE Spec2Model ----
(***************************************************************************)
(* A model of the transport pipeline of jcx17/gorest: the middleware       *)
(* chain (ChainMiddlewares, Client.WithMiddlewares), the retry middleware  *)
(* (RetryMiddleware, ParseRetryAfter, DrainAndClose), the logging          *)
(* middleware (LoggingMiddlewareWithConfig), the asynchronous dispatches   *)
(* of the Client (DoAsync, DoStreamAsync, DoGroupAsync,                    *)
(* JoinAsyncResponses) and the Response handle (Do, DoStream, Bytes).      *)
(*                                                                         *)
(* Durations and instants are whole seconds.  A header value is a sequence *)
(* of one-character strings; <<>> is the empty string that Header.Get      *)
(* returns for an absent header.  The text of an HTTP-date is abstracted   *)
(* to the character "D" followed by the decimal digits of its instant.     *)
(***************************************************************************)
EXTENDS Integers, Sequences, FiniteSets, TLC

VARIABLES
    \* ---- RetryMiddleware: the configuration and the request of one call
    variant,        \* "gorest" (src/gorest/middleware.go) or "unnamed" (src/unnamed/part_001)
    attempts,       \* RetryMiddleware's attempts argument
    retryDelay,     \* RetryMiddleware's retryDelay argument
    callerBody,     \* the Body of the request as the caller passed it
    reqBody,        \* req.Body: [present, data, pos, failing, shared]
    preCancelled,   \* whether req.Context() was cancelled when the call was made
    cancelled,      \* req.Context().Err() != nil
    \* ---- RetryMiddleware: the locals of the call
    pc,             \* position in the closure
    i,              \* loop counter
    bodyBytes,      \* the buffered body
    bodyReads,      \* number of io.ReadAll calls made on the caller's body
    resp,           \* the local resp: 0 is nil, k > 0 is the response of invocation k
    err,            \* the local err
    pendingSleep,   \* the sleep that follows DrainAndClose
    result,         \* what the closure returned
    \* ---- RetryMiddleware: what the environment observed
    history,        \* one record per invocation of next
    sleeps,         \* the arguments of time.Sleep, in order
    clock,          \* time.Now()
    reqAttempt,     \* reqAttempt.Body, the stream the current attempt hands to next
    headerHeap,     \* the header maps in memory; the first is the Header of the caller's request
    attemptHeader,  \* reqAttempt.Header: the place of its map in headerHeap, 0 before the clone
    \* ---- ChainMiddlewares / Client
    middlewares,    \* Client.middlewares
    chainArgs,      \* the mws argument of the ChainMiddlewares call being run
    chainExec,      \* the RoundTripFunc ChainMiddlewares returned
    chainPc,        \* "config", "in", "out", "done"
    depth,          \* number of middleware frames on the call stack
    trace,          \* the request-side and response-side events, in order
    shorted,        \* whether some middleware returned without calling next
    caller,         \* "direct": ChainMiddlewares was called; "client": Client.Do was
    optionArgs,     \* the argument lists of the WithMiddlewares options, in order
    \* ---- Client: asynchronous dispatch
    autoBuffer,     \* Client.autoBuffer
    mode,           \* "new", "single" (DoAsync / DoStreamAsync calls) or "group" (DoGroupAsync)
    calls,          \* one record per dispatched request: [id, kind, api]
    tasks,          \* the position of the goroutine of each dispatch
    chans,          \* the channel of each dispatch: [buf, closed, sent]
    recvd,          \* what the caller's receives on each channel returned, in order
    join,           \* the goroutine of JoinAsyncResponses and its out channel
    finished,       \* the dispatches whose call has returned, in the order of completion
    \* ---- LoggingMiddlewareWithConfig: one call
    logCfg,         \* [variant, dumpRequestBody, dumpResponseBody, redactor, given]
    logReq,         \* the request as the caller passed it: [body, dumpFails]
    logPc,          \* "idle", "start", "call", "returned", "done"
    logBody,        \* req.Body
    logInner,       \* what next was given and what it returned
    logResult,      \* what the closure returned
    sink,           \* the writes to logger, in order
    \* ---- ParseRetryAfter: one call
    parseArgs,      \* [header, baseline, wall]: the arguments and time.Now()
    parseResult,    \* [called, ok, d, err]: what the call returned
    \* ---- Response: one handle and the calls made on it
    respCfg,        \* [autoBuffer, stream, kind]: the client, Do or DoStream, the exchange
    respHandle,     \* [made, Response, Error, atReturn, transport]: what Do / DoStream returned
    respCalls,      \* the results of the method calls on the handle, in order
    \* ---- Request: its construction and one dispatch of it
    request,        \* the *Request: [url, headers, buildErr, hasBody]
    applied,        \* the header maps written to the Request, in order
    dispatch,       \* [pc, api, ab, kind, ch, out]: the call that sends the Request
    wire,           \* the *http.Request values given to http.Client.Do, in order
    \* ---- RetryMiddleware in a chain, called by two goroutines
    stackCfg,       \* [chain, exec, attempts, variant]: the chain and the Retry in it
    frames,         \* the locals of each running call of Retry's closure: [i, bodyBytes, resp, err]
    stackCalls      \* per caller: [pc, log, result]; log is what each layer was given and returned

vars == <<headerHeap, attemptHeader, variant, attempts, retryDelay, callerBody, reqBody, preCancelled, cancelled, pc, i,
          bodyBytes, bodyReads, resp, err, pendingSleep, result, history, sleeps,
          clock, reqAttempt, middlewares, chainArgs, chainExec, chainPc, depth, trace, shorted,
          caller, optionArgs, autoBuffer, mode, calls, tasks, chans, recvd, join,
          finished, logCfg, logReq, logPc, logBody, logInner, logResult, sink,
          parseArgs, parseResult, respCfg, respHandle, respCalls,
          request, applied, dispatch, wire,
          stackCfg, frames, stackCalls>>

retryVars == <<headerHeap, attemptHeader, variant, attempts, retryDelay, callerBody, reqBody, preCancelled, cancelled, pc, i,
               bodyBytes, bodyReads, resp, err, pendingSleep, result, history, sleeps,
               clock, reqAttempt>>

chainVars == <<middlewares, chainArgs, chainExec, chainPc, depth, trace, shorted,
               caller, optionArgs>>

asyncVars == <<autoBuffer, mode, calls, tasks, chans, recvd, join, finished>>

logVars == <<logCfg, logReq, logPc, logBody, logInner, logResult, sink>>

parseVars == <<parseArgs, parseResult>>

respVars == <<respCfg, respHandle, respCalls>>

buildVars == <<request, applied, dispatch, wire>>

\* what the steps of one machine leave alone
stackVars == <<stackCfg, frames, stackCalls>>

notRetryVars == <<chainVars, asyncVars, logVars, parseVars, respVars, buildVars, stackVars>>
notChainVars == <<retryVars, asyncVars, logVars, parseVars, respVars, buildVars, stackVars>>
notAsyncVars == <<retryVars, chainVars, logVars, parseVars, respVars, buildVars, stackVars>>
notLogVars == <<retryVars, chainVars, asyncVars, parseVars, respVars, buildVars, stackVars>>
notParseVars == <<retryVars, chainVars, asyncVars, logVars, respVars, buildVars, stackVars>>
notRespVars == <<retryVars, chainVars, asyncVars, logVars, parseVars, buildVars, stackVars>>
notBuildVars == <<retryVars, chainVars, asyncVars, logVars, parseVars, respVars, stackVars>>
notStackVars == <<retryVars, chainVars, asyncVars, logVars, parseVars, respVars, buildVars>>

-----------------------------------------------------------------------------
\* Bounds of the model.

\* the largest attempts argument explored
MaxAttempts == 3
\* the longest middleware list explored
MaxMws == 3
\* the largest number of requests given to DoGroupAsync
MaxReqs == 3
\* the largest number of DoAsync / DoStreamAsync calls of one caller
MaxChans == 2
\* the largest number of receives the caller makes on one channel
MaxRecvs == 2
\* the longest Retry-After value given to ParseRetryAfter
MaxHeaderLen == 3
\* the largest number of method calls made on one Response
MaxCalls == 3
\* the largest buffer size given to StreamChunks
MaxBufSize == 2
\* the largest number of header writes made on one Request
MaxHeaderWrites == 2

-----------------------------------------------------------------------------
\* Values.

Digits == <<"0", "1", "2", "3", "4", "5", "6", "7", "8", "9">>

IsDigit(c) == \E k \in 1..10 : Digits[k] = c

DigitVal(c) == (CHOOSE k \in 1..10 : Digits[k] = c) - 1

AllDigits(s) == \A k \in 1..Len(s) : IsDigit(s[k])

RECURSIVE DecVal(_)
DecVal(s) == IF s = <<>> THEN 0
             ELSE 10 * DecVal(SubSeq(s, 1, Len(s) - 1)) + DigitVal(s[Len(s)])

\* error values: kind "nil" is the nil error
NoErr == [kind |-> "nil", cause |-> "", code |-> 0, value |-> <<>>]
ErrOf(kind, cause, code) == [kind |-> kind, cause |-> cause, code |-> code, value |-> <<>>]
CtxCanceled == ErrOf("context", "context canceled", 0)
ReadError == ErrOf("read", "read error", 0)
TransportErrors == {ErrOf("transport", "E1", 0), ErrOf("transport", "E2", 0)}

\* the pair a RoundTripFunc returns; resp 0 is the nil response
Pair(r, e) == [resp |-> r, err |-> e]
NotReturned == [resp |-> -1, err |-> NoErr]

-----------------------------------------------------------------------------
\* strconv.Atoi, http.ParseTime, ParseRetryAfter.

\* strconv.Atoi: an optional sign followed by at least one decimal digit
AtoiBody(s) == IF s /= <<>> /\ (s[1] = "+" \/ s[1] = "-") THEN Tail(s) ELSE s

Atoi(s) ==
    LET body == AtoiBody(s)
        neg == s /= <<>> /\ s[1] = "-"
    IN  IF body /= <<>> /\ AllDigits(body)
        THEN [ok |-> TRUE, n |-> IF neg THEN 0 - DecVal(body) ELSE DecVal(body)]
        ELSE [ok |-> FALSE, n |-> 0]

\* http.ParseTime on the abstracted HTTP-date text
ParseTime(s) ==
    IF Len(s) >= 2 /\ s[1] = "D" /\ AllDigits(Tail(s))
    THEN [ok |-> TRUE, t |-> DecVal(Tail(s))]
    ELSE [ok |-> FALSE, t |-> 0]

\* ParseRetryAfter without the test d < 0: a past deadline gives a negative duration
ParseRetryAfterUnclamped(header, baseline, wall) ==
    LET now == IF Len(baseline) > 0 THEN baseline[1] ELSE wall
        a == Atoi(header)
        p == ParseTime(header)
    IN  IF a.ok THEN [ok |-> TRUE, d |-> a.n, err |-> NoErr]
        ELSE IF p.ok
             THEN [ok |-> TRUE, d |-> p.t - now, err |-> NoErr]
             ELSE [ok |-> FALSE, d |-> 0,
                   err |-> [ErrOf("invalid Retry-After header", "", 0)
                                EXCEPT !.value = header]]

\* ParseRetryAfter(header, baseline...): baseline is the variadic argument, wall is
\* time.Now().  The result is [ok, d, err].
ParseRetryAfter(header, baseline, wall) ==
    LET now == IF Len(baseline) > 0 THEN baseline[1] ELSE wall
        a == Atoi(header)
        p == ParseTime(header)
    IN  IF a.ok THEN [ok |-> TRUE, d |-> a.n, err |-> NoErr]
        ELSE IF p.ok
             THEN [ok |-> TRUE, d |-> IF p.t - now < 0 THEN 0 ELSE p.t - now, err |-> NoErr]
             ELSE [ok |-> FALSE, d |-> 0,
                   err |-> [ErrOf("invalid Retry-After header", "", 0)
                                EXCEPT !.value = header]]

-----------------------------------------------------------------------------
\* Streams, io.ReadAll, DrainAndClose.

NoBody == [present |-> FALSE, data |-> <<>>, pos |-> 0, failing |-> FALSE, shared |-> FALSE]
Reader(bytes) == [present |-> TRUE, data |-> bytes, pos |-> 0, failing |-> FALSE, shared |-> FALSE]
FailingReader == [present |-> TRUE, data |-> <<>>, pos |-> 0, failing |-> TRUE, shared |-> FALSE]

\* what a stream still yields
Remaining(stream) == SubSeq(stream.data, stream.pos + 1, Len(stream.data))

\* io.ReadAll
ReadAll(stream) ==
    IF stream.failing THEN [data |-> Remaining(stream), err |-> ReadError]
    ELSE [data |-> Remaining(stream), err |-> NoErr]

\* a stream that yields bytes and then fails
BrokenReader(bytes) == [present |-> TRUE, data |-> bytes, pos |-> 0, failing |-> TRUE, shared |-> FALSE]

\* the stream after a read to its end or to its failure
Consumed(stream) == [stream EXCEPT !.pos = Len(stream.data)]

\* DrainAndClose with the Close forgotten: the body is only drained
DrainWithoutClose(r) ==
    IF r.hasBody THEN [r EXCEPT !.drained = TRUE] ELSE r

\* DrainAndClose on a history record of a response
DrainAndClose(r) ==
    IF r.hasBody THEN [r EXCEPT !.drained = TRUE, !.closed = TRUE] ELSE r

-----------------------------------------------------------------------------
\* RetryMiddleware: the pieces of the closure.

\* BufferBody without the check of ReadAll's error
BufferBodyUnchecked(body) ==
    IF body.present
    THEN [abort |-> FALSE, err |-> NoErr, bytes |-> ReadAll(body).data,
          body |-> Reader(ReadAll(body).data), reads |-> 1]
    ELSE [abort |-> FALSE, err |-> NoErr, bytes |-> <<>>, body |-> body, reads |-> 0]

\* the body is read once, up front; a read error ends the call
BufferBody(body) ==
    IF body.present
    THEN LET r == ReadAll(body)
         IN  IF r.err /= NoErr
             THEN [abort |-> TRUE, err |-> r.err, bytes |-> <<>>, body |-> body, reads |-> 1]
             ELSE [abort |-> FALSE, err |-> NoErr, bytes |-> r.data,
                   body |-> Reader(r.data), reads |-> 1]
    ELSE [abort |-> FALSE, err |-> NoErr, bytes |-> <<>>, body |-> body, reads |-> 0]

\* the loop condition with an off-by-one
LoopContinuesInclusive(ii, n) == ii <= n

\* for i := 0; i < attempts; i++
LoopContinues(ii, n) == ii < n

\* the cancellation check skipped on the first attempt
ContextErrAfterFirst(ii, c) == IF ii > 0 /\ c THEN CtxCanceled ELSE NoErr

\* req.Context().Err() at the top of iteration ii
ContextErr(ii, c) == IF c THEN CtxCanceled ELSE NoErr

\* the cancellation error wrapped like a retry failure
CancelReturnWrapped(ctxErr) == Pair(0, ErrOf("all retry attempts failed", ctxErr.cause, 0))

\* return nil, req.Context().Err()
CancelReturn(ctxErr) == Pair(0, ctxErr)

\* the attempt keeps the Body that req.Clone copied: the stream of req.Body itself
AttemptBodyOfClone(body, bytes) == [body EXCEPT !.shared = body.present]

\* reqAttempt.Body: the clone's Body, replaced by a fresh reader of the buffer
AttemptBody(body, bytes) == IF body.present THEN Reader(bytes) ELSE body

\* the names of the headers explored
HeaderKeys == {"Authorization", "X-Seen"}

\* the Header of the request the caller passes to the Retry-decorated executor
OrigHeader == [key \in HeaderKeys |-> IF key = "Authorization" THEN <<"t">> ELSE <<>>]

\* req.WithContext(ctx) in place of req.Clone(ctx): the copy shares the Header map
CloneHeaderShallow(heap, ref) == [heap |-> heap, ref |-> ref]

\* req.Clone(ctx): the Header of the clone is a new map with copies of the values
CloneHeader(heap, ref) == [heap |-> Append(heap, heap[ref]), ref |-> Len(heap) + 1]

\* what next, or a middleware inside Retry, does to the Header of the request it is
\* given: invocation k adds the value k under X-Seen
InnerMutation(h, k) == [h EXCEPT !["X-Seen"] = Append(@, Digits[k + 1])]

\* a sleep that a cancellation ends, the call ending with it
AfterSleepChecked(c) == IF c THEN "done" ELSE "call"

\* time.Sleep(retryDelay) and then next(reqAttempt): the context is not looked at
AfterSleep(c) == "call"

\* a sleep before every attempt, the first included
PreAttemptSleepAlways(ii) == TRUE

\* the sleep before an attempt left out
PreAttemptSleepNever(ii) == FALSE

\* if i > 0 { time.Sleep(retryDelay) }
PreAttemptSleep(ii) == ii > 0

\* the second implementation measuring an HTTP-date from the time the middleware
\* was built
ParsedRetryAfterStale(v, r, now) ==
    IF v = "gorest" THEN ParseRetryAfter(r.retryAfter, <<now>>, now)
    ELSE ParseRetryAfter(r.retryAfter, <<0>>, now)

\* the Retry-After value of a 429, parsed as the variant parses it
ParsedRetryAfter(v, r, now) ==
    IF v = "gorest" THEN ParseRetryAfter(r.retryAfter, <<now>>, now)
    ELSE ParseRetryAfter(r.retryAfter, <<>>, now)

\* Classify with the 429 branch missing: a 429 is returned like any status below 500
ClassifyWithout429(v, r, now, delay) ==
    IF r.kind = "err" THEN [next |-> "continue", sleep |-> 0]
    ELSE IF r.status /= 429 /\ r.status >= 500 THEN [next |-> "retry", sleep |-> delay]
    ELSE [next |-> "return", sleep |-> 0]

\* Classify with every 429 retried: one whose Retry-After is absent or does not
\* parse is drained and retried after retryDelay
ClassifyEvery429(v, r, now, delay) ==
    IF r.kind = "err" THEN [next |-> "continue", sleep |-> 0]
    ELSE IF r.status = 429
         THEN IF r.retryAfter /= <<>> /\ ParsedRetryAfter(v, r, now).ok
              THEN [next |-> "retry", sleep |-> ParsedRetryAfter(v, r, now).d]
              ELSE [next |-> "retry", sleep |-> delay]
         ELSE IF r.status >= 500 THEN [next |-> "retry", sleep |-> delay]
              ELSE [next |-> "return", sleep |-> 0]

\* Classify with the status test at 400: a client error is retried like a 5xx
ClassifyFrom400(v, r, now, delay) ==
    IF r.kind = "err" THEN [next |-> "continue", sleep |-> 0]
    ELSE IF r.status = 429
         THEN IF r.retryAfter /= <<>> /\ ParsedRetryAfter(v, r, now).ok
              THEN [next |-> "retry", sleep |-> ParsedRetryAfter(v, r, now).d]
              ELSE [next |-> "return", sleep |-> 0]
         ELSE IF r.status >= 400 THEN [next |-> "retry", sleep |-> delay]
              ELSE [next |-> "return", sleep |-> 0]

\* what the loop body does with the outcome r of next: "continue" (transport
\* error), "retry" (DrainAndClose, sleep, continue) or "return" (return resp, nil)
Classify(v, r, now, delay) ==
    IF r.kind = "err" THEN [next |-> "continue", sleep |-> 0]
    ELSE IF r.status = 429
         THEN IF r.retryAfter /= <<>> /\ ParsedRetryAfter(v, r, now).ok
              THEN [next |-> "retry", sleep |-> ParsedRetryAfter(v, r, now).d]
              ELSE [next |-> "return", sleep |-> 0]
         ELSE IF r.status >= 500 THEN [next |-> "retry", sleep |-> delay]
              ELSE [next |-> "return", sleep |-> 0]

\* a nil pointer dereference: the goroutine panics instead of returning
Panicked == Pair(0, ErrOf("panic", "nil pointer dereference", 0))

\* the code after the loop returning the last raw pair
ExhaustedRaw(v, rsp, e, hist) == Pair(rsp, e)

\* the code after the loop
ExhaustedReturn(v, rsp, e, hist) ==
    IF v = "gorest"
    THEN IF e /= NoErr
         THEN Pair(0, ErrOf("all retry attempts failed", e.cause, 0))
         ELSE IF rsp = 0 THEN Panicked
              ELSE Pair(0, ErrOf("all retry attempts exhausted", "", hist[rsp].status))
    ELSE Pair(rsp, e)

-----------------------------------------------------------------------------
\* The inputs of a Retry call and the behaviour of the inner executor.

Variants == {"gorest", "unnamed"}
Delays == {1, 2}
BodyBytes == <<7, 8>>
Bodies == {NoBody, Reader(BodyBytes), FailingReader}

\* the Retry-After values a 429 may carry
RetryAfterValues == {<<>>, <<"2">>, <<"-", "1">>, <<"x">>, <<"D", "3">>}

\* what next may return: a transport error or a response
Outcomes ==
    {[kind |-> "err", err |-> e, status |-> 0, retryAfter |-> <<>>, hasBody |-> FALSE]
        : e \in TransportErrors}
    \cup {[kind |-> "resp", err |-> NoErr, status |-> st, retryAfter |-> <<>>, hasBody |-> TRUE]
        : st \in {200, 404, 500}}
    \cup {[kind |-> "resp", err |-> NoErr, status |-> 503, retryAfter |-> <<>>, hasBody |-> FALSE]}
    \cup {[kind |-> "resp", err |-> NoErr, status |-> 429, retryAfter |-> h, hasBody |-> TRUE]
        : h \in RetryAfterValues}

\* how much of the attempt's body next may read
ConsumeChoices(given) == {0, Len(given)}

\* time.Sleep(d)
SleepEntry(d) == [d |-> d, after |-> Len(history)]
Elapse(d) == IF d > 0 THEN d ELSE 0

-----------------------------------------------------------------------------
\* RetryMiddleware: the closure, one action per stretch between blocking points.

InitRetry ==
    /\ variant \in Variants
    /\ attempts \in 0..MaxAttempts
    /\ retryDelay \in Delays
    /\ callerBody \in Bodies
    /\ reqBody = callerBody
    /\ preCancelled \in BOOLEAN
    /\ cancelled = preCancelled
    /\ pc = "start"
    /\ i = 0
    /\ bodyBytes = <<>>
    /\ bodyReads = 0
    /\ resp = 0
    /\ err = NoErr
    /\ pendingSleep = 0
    /\ result = NotReturned
    /\ history = <<>>
    /\ sleeps = <<>>
    /\ clock = 0
    /\ reqAttempt = NoBody
    /\ headerHeap = <<OrigHeader>>
    /\ attemptHeader = 0

\* lines 31-39: buffer the body
RetryBegin ==
    /\ pc = "start"
    /\ LET b == BufferBody(reqBody)
       IN  /\ bodyReads' = bodyReads + b.reads
           /\ IF b.abort
              THEN /\ result' = Pair(0, b.err)
                   /\ pc' = "done"
                   /\ err' = b.err
                   /\ UNCHANGED <<bodyBytes, reqBody>>
              ELSE /\ bodyBytes' = b.bytes
                   /\ reqBody' = b.body
                   /\ pc' = "loop"
                   /\ UNCHANGED <<result, err>>
    /\ UNCHANGED <<headerHeap, attemptHeader,
                   variant, attempts, retryDelay, callerBody, preCancelled, cancelled, i, resp,
                   pendingSleep, history, sleeps, clock, reqAttempt>>
    /\ UNCHANGED notRetryVars

\* lines 42-51: the loop condition holds; the cancellation check and the clone
RetryAttemptStart ==
    /\ pc = "loop"
    /\ LoopContinues(i, attempts)
    /\ IF ContextErr(i, cancelled) /= NoErr
       THEN /\ result' = CancelReturn(ContextErr(i, cancelled))
            /\ pc' = "done"
            /\ UNCHANGED <<reqAttempt, headerHeap, attemptHeader>>
       ELSE /\ reqAttempt' = AttemptBody(reqBody, bodyBytes)
            /\ headerHeap' = CloneHeader(headerHeap, 1).heap
            /\ attemptHeader' = CloneHeader(headerHeap, 1).ref
            /\ pc' = IF PreAttemptSleep(i) THEN "backoff" ELSE "call"
            /\ UNCHANGED result
    /\ UNCHANGED <<variant, attempts, retryDelay, callerBody, reqBody, preCancelled, cancelled, i,
                   bodyBytes, bodyReads, resp, err, pendingSleep, history, sleeps, clock>>
    /\ UNCHANGED notRetryVars

\* lines 53-55: time.Sleep(retryDelay) before a retry
RetryBackoff ==
    /\ pc = "backoff"
    /\ sleeps' = Append(sleeps, SleepEntry(retryDelay))
    /\ clock' = clock + Elapse(retryDelay)
    /\ pc' = AfterSleep(cancelled)
    /\ UNCHANGED <<headerHeap, attemptHeader,
                   variant, attempts, retryDelay, callerBody, reqBody, preCancelled, cancelled, i,
                   bodyBytes, bodyReads, resp, err, pendingSleep, result, history,
                   reqAttempt>>
    /\ UNCHANGED notRetryVars

\* lines 57-75: next(reqAttempt) and what the loop body does with its outcome, in
\* the implementation v
RetryInvokeAs(v) ==
    /\ pc = "call"
    /\ \E o \in Outcomes, n \in ConsumeChoices(Remaining(reqAttempt)) :
         LET entry == [kind |-> o.kind, err |-> o.err, status |-> o.status,
                       retryAfter |-> o.retryAfter, hasBody |-> o.hasBody,
                       drained |-> FALSE, closed |-> FALSE,
                       hadBody |-> reqAttempt.present, given |-> Remaining(reqAttempt),
                       consumed |-> n, receivedAt |-> clock, attempt |-> i,
                       header |-> headerHeap[attemptHeader], headerRef |-> attemptHeader]
             c == Classify(v, entry, clock, retryDelay)
             k == Len(history) + 1
         IN  /\ history' = Append(history,
                                  IF c.next = "retry" THEN DrainAndClose(entry) ELSE entry)
             /\ resp' = IF o.kind = "err" THEN 0 ELSE k
             /\ err' = o.err
             /\ reqBody' = IF reqAttempt.shared
                           THEN [reqBody EXCEPT !.pos = reqBody.pos + n]
                           ELSE reqBody
             /\ reqAttempt' = [reqAttempt EXCEPT !.pos = reqAttempt.pos + n]
             /\ headerHeap' = [headerHeap EXCEPT ![attemptHeader] = InnerMutation(@, k)]
             /\ CASE c.next = "continue" ->
                       /\ i' = i + 1
                       /\ pc' = "loop"
                       /\ UNCHANGED <<pendingSleep, result>>
                  [] c.next = "retry" ->
                       /\ pendingSleep' = c.sleep
                       /\ pc' = "sleep"
                       /\ UNCHANGED <<i, result>>
                  [] c.next = "return" ->
                       /\ result' = Pair(k, NoErr)
                       /\ pc' = "done"
                       /\ UNCHANGED <<i, pendingSleep>>
    /\ UNCHANGED <<attemptHeader, variant, attempts, retryDelay, callerBody, preCancelled,
                   cancelled, bodyBytes, bodyReads, sleeps, clock>>
    /\ UNCHANGED notRetryVars

RetryInvoke == RetryInvokeAs(variant)

\* lines 66-67 and 72-73: the sleep after DrainAndClose, then continue
RetrySleep ==
    /\ pc = "sleep"
    /\ sleeps' = Append(sleeps, SleepEntry(pendingSleep))
    /\ clock' = clock + Elapse(pendingSleep)
    /\ i' = i + 1
    /\ pc' = "loop"
    /\ UNCHANGED <<headerHeap, attemptHeader,
                   variant, attempts, retryDelay, callerBody, reqBody, preCancelled, cancelled,
                   bodyBytes, bodyReads, resp, err, pendingSleep, result, history,
                   reqAttempt>>
    /\ UNCHANGED notRetryVars

\* lines 77-81: the loop condition fails, in the implementation v
RetryExhaustedAs(v) ==
    /\ pc = "loop"
    /\ ~LoopContinues(i, attempts)
    /\ result' = ExhaustedReturn(v, resp, err, history)
    /\ pc' = IF ExhaustedReturn(v, resp, err, history) = Panicked
             THEN "panic" ELSE "done"
    /\ UNCHANGED <<headerHeap, attemptHeader,
                   variant, attempts, retryDelay, callerBody, reqBody, preCancelled, cancelled, i,
                   bodyBytes, bodyReads, resp, err, pendingSleep, history, sleeps, clock,
                   reqAttempt>>
    /\ UNCHANGED notRetryVars

RetryExhausted == RetryExhaustedAs(variant)

\* the caller cancels the request's context while the call runs
Cancel ==
    /\ pc \in {"start", "loop", "backoff", "call", "sleep"}
    /\ ~cancelled
    /\ cancelled' = TRUE
    /\ UNCHANGED <<headerHeap, attemptHeader,
                   variant, attempts, retryDelay, callerBody, reqBody, preCancelled, pc, i,
                   bodyBytes, bodyReads, resp, err, pendingSleep, result, history, sleeps,
                   clock, reqAttempt>>
    /\ UNCHANGED notRetryVars

-----------------------------------------------------------------------------
\* ChainMiddlewares and the Client's middleware list.
\* A RoundTripFunc built by wrapping is the sequence of the names of its layers,
\* outermost first; its last element is the terminal RoundTripFunc.

MwIds == {"A", "B", "C"}
Terminal == <<"T">>

\* mw placed next to the terminal, inside the layers that next already has
WrapInnermost(mw, next) ==
    SubSeq(next, 1, Len(next) - 1) \o <<mw>> \o <<next[Len(next)]>>

\* mw(next): the closure that runs mw's logic around next
Wrap(mw, next) == <<mw>> \o next

RECURSIVE ChainLoop(_, _, _)
\* for i := len(mws) - 1; i >= 0; i-- { wrapped = mws[i](wrapped) }, 1-based
ChainLoop(wrapped, mws, k) ==
    IF k >= 1 THEN ChainLoop(Wrap(mws[k], wrapped), mws, k - 1) ELSE wrapped

RECURSIVE ChainLoopForward(_, _, _)
\* the loop running forward: for i := 0; i < len(mws); i++
ChainLoopForward(wrapped, mws, k) ==
    IF k <= Len(mws) THEN ChainLoopForward(Wrap(mws[k], wrapped), mws, k + 1) ELSE wrapped

\* ChainMiddlewares folding from the first middleware on
ChainMiddlewaresForward(final, mws) == ChainLoopForward(final, mws, 1)

ChainMiddlewares(final, mws) == ChainLoop(final, mws, Len(mws))

\* the lists of at most n middlewares
RECURSIVE MwLists(_)
MwLists(n) ==
    IF n = 0 THEN {<<>>}
    ELSE MwLists(n - 1) \cup {Append(l, m) : l \in {x \in MwLists(n - 1) : Len(x) = n - 1},
                                              m \in MwIds}

Ev(side, who) == [side |-> side, who |-> who]

InitChain ==
    /\ middlewares = <<>>
    /\ chainArgs = <<>>
    /\ chainExec = <<>>
    /\ chainPc = "config"
    /\ depth = 0
    /\ trace = <<>>
    /\ shorted = FALSE
    /\ caller = "none"
    /\ optionArgs = <<>>

\* WithMiddlewares(mws...) applied by NewClient: c.middlewares = append(c.middlewares, mws...)
WithMiddlewares ==
    /\ chainPc = "config"
    /\ \E ms \in MwLists(2) :
         /\ Len(ms) >= 1
         /\ Len(middlewares) + Len(ms) <= MaxMws
         /\ middlewares' = middlewares \o ms
         /\ optionArgs' = Append(optionArgs, ms)
    /\ UNCHANGED <<chainArgs, chainExec, chainPc, depth, trace, shorted, caller>>
    /\ UNCHANGED notChainVars

\* wrapTransport's RoundTripFunc, reached from Client.Do: the chain is built from
\* c.middlewares around the transport and called
ClientDo ==
    /\ chainPc = "config"
    /\ caller' = "client"
    /\ chainArgs' = middlewares
    /\ chainExec' = ChainMiddlewares(Terminal, middlewares)
    /\ chainPc' = "in"
    /\ UNCHANGED <<middlewares, depth, trace, shorted, optionArgs>>
    /\ UNCHANGED notChainVars

\* a ChainMiddlewares that tries final once while it composes
ChainDirectProbing ==
    /\ chainPc = "config"
    /\ middlewares = <<>>
    /\ \E mws \in MwLists(MaxMws) :
         /\ chainArgs' = mws
         /\ chainExec' = ChainMiddlewares(Terminal, mws)
    /\ trace' = <<Ev("req", Terminal[1])>>
    /\ caller' = "direct"
    /\ chainPc' = "in"
    /\ UNCHANGED <<middlewares, depth, shorted, optionArgs>>
    /\ UNCHANGED notChainVars

\* ChainMiddlewares(final, mws...) called directly, and the result invoked
ChainDirect ==
    /\ chainPc = "config"
    /\ middlewares = <<>>
    /\ \E mws \in MwLists(MaxMws) :
         /\ chainArgs' = mws
         /\ chainExec' = ChainMiddlewares(Terminal, mws)
    /\ caller' = "direct"
    /\ chainPc' = "in"
    /\ UNCHANGED <<middlewares, depth, trace, shorted, optionArgs>>
    /\ UNCHANGED notChainVars

\* the layer below the current frame is a middleware: its request-side logic runs,
\* and it calls next or returns on its own
ChainEnter ==
    /\ chainPc = "in"
    /\ depth + 1 < Len(chainExec)
    /\ \E delegates \in BOOLEAN :
         IF delegates
         THEN /\ trace' = Append(trace, Ev("req", chainExec[depth + 1]))
              /\ depth' = depth + 1
              /\ UNCHANGED <<chainPc, shorted>>
         ELSE /\ trace' = trace \o <<Ev("req", chainExec[depth + 1]),
                                      Ev("resp", chainExec[depth + 1])>>
              /\ chainPc' = "out"
              /\ shorted' = TRUE
              /\ UNCHANGED depth
    /\ UNCHANGED <<middlewares, chainArgs, chainExec, caller, optionArgs>>
    /\ UNCHANGED notChainVars

\* the layer below the current frame is the terminal RoundTripFunc: it runs
ChainTerminal ==
    /\ chainPc = "in"
    /\ depth + 1 = Len(chainExec)
    /\ trace' = Append(trace, Ev("req", chainExec[depth + 1]))
    /\ chainPc' = "out"
    /\ UNCHANGED <<middlewares, chainArgs, chainExec, depth, shorted, caller, optionArgs>>
    /\ UNCHANGED notChainVars

\* next returned into the innermost running middleware: its response-side logic runs
ChainLeave ==
    /\ chainPc = "out"
    /\ depth > 0
    /\ trace' = Append(trace, Ev("resp", chainExec[depth]))
    /\ depth' = depth - 1
    /\ UNCHANGED <<middlewares, chainArgs, chainExec, chainPc, shorted, caller, optionArgs>>
    /\ UNCHANGED notChainVars

\* the outermost layer returned to the caller
ChainReturn ==
    /\ chainPc = "out"
    /\ depth = 0
    /\ chainPc' = "done"
    /\ UNCHANGED <<middlewares, chainArgs, chainExec, depth, trace, shorted, caller,
                   optionArgs>>
    /\ UNCHANGED notChainVars

-----------------------------------------------------------------------------
\* Response bodies, Response, Client.Do, Client.DoStream.

\* the body of a response the transport returned; once closed, a read of it fails
LiveBody(bytes, failing, closeFails) ==
    [data |-> bytes, pos |-> 0, failing |-> failing, closeFails |-> closeFails,
     closed |-> FALSE, nop |-> FALSE, closes |-> 0]

\* io.NopCloser(bytes.NewReader(bytes)): Close does nothing and returns nil
NopCloser(bytes) ==
    [data |-> bytes, pos |-> 0, failing |-> FALSE, closeFails |-> FALSE,
     closed |-> FALSE, nop |-> TRUE, closes |-> 0]

ClosedBodyError == ErrOf("http: read on closed response body", "", 0)
CloseError == ErrOf("close error", "", 0)
BuildError == ErrOf("build", "", 0)

\* io.ReadAll on a response body: the bytes not yet read, the error that ended the
\* read if it was not the end of the stream, and the body after the read
ReadAllBody(b) ==
    IF b.closed /\ ~b.nop THEN [data |-> <<>>, err |-> ClosedBodyError, body |-> b]
    ELSE [data |-> SubSeq(b.data, b.pos + 1, Len(b.data)),
          err |-> IF b.failing THEN ReadError ELSE NoErr,
          body |-> [b EXCEPT !.pos = Len(b.data)]]

\* Body.Close(); closes counts the calls
CloseBody(b) ==
    IF b.nop THEN [err |-> NoErr, body |-> [b EXCEPT !.closes = @ + 1]]
    ELSE [err |-> IF b.closeFails THEN CloseError ELSE NoErr,
          body |-> [b EXCEPT !.closed = TRUE, !.closes = @ + 1]]

\* a nil *Response
NilResponse == [nil |-> TRUE, id |-> 0, status |-> 0, header |-> <<>>, body |-> NopCloser(<<>>)]

\* &Response{...} for the exchange of request id
ResponseOf(id, status, header, body) ==
    [nil |-> FALSE, id |-> id, status |-> status, header |-> header, body |-> body]

\* what can happen to a request: BuildHTTPRequest fails, the transport fails, or the
\* transport returns a response whose body reads and closes, fails to read, or fails
\* to close
CallKinds == {"builderr", "transporterr", "ok", "readfail", "closefail"}

\* the *url.Error of http.Client.Do names the request
TransportError(id) == [ErrOf("url.Error", "E1", 0) EXCEPT !.value = <<id>>]

\* the response the transport returns for request id
HttpResponse(id, kind) ==
    ResponseOf(id, 200, <<"X-Request-Id", id>>,
               LiveBody(BodyBytes, kind = "readfail", kind = "closefail"))

\* Client.DoStream: the raw response
DoStream(id, kind) ==
    IF kind = "builderr" THEN [Response |-> NilResponse, Error |-> BuildError]
    ELSE IF kind = "transporterr"
         THEN [Response |-> NilResponse, Error |-> TransportError(id)]
         ELSE [Response |-> HttpResponse(id, kind), Error |-> NoErr]

\* the buffering of Do without the deferred Close
BufferNoClose(body) ==
    LET r == ReadAllBody(body)
    IN  [data |-> r.data, readErr |-> r.err, closeErr |-> NoErr, body |-> r.body]

\* the buffering of Do: io.ReadAll(resp.Body), then the deferred resp.Body.Close()
BufferAndClose(body) ==
    LET r == ReadAllBody(body)
        c == CloseBody(r.body)
    IN  [data |-> r.data, readErr |-> r.err, closeErr |-> c.err, body |-> c.body]

\* Client.Do: with autoBuffer the body is read into memory and the original body is
\* closed by the deferred function, which assigns its error to the named result err
\* when that is nil (the err of the ReadAll line is a new variable of the inner block)
Do(ab, id, kind) ==
    IF kind \in {"builderr", "transporterr"} \/ ~ab THEN DoStream(id, kind)
    ELSE LET raw == HttpResponse(id, kind)
             b == BufferAndClose(raw.body)
         IN  IF b.readErr /= NoErr
             THEN [Response |-> NilResponse, Error |-> b.readErr]
             ELSE [Response |-> ResponseOf(id, raw.status, raw.header, NopCloser(b.data)),
                   Error |-> b.closeErr]

\* the body of the transport's response as Do (ab) or DoStream (~ab) leaves it
TransportBody(ab, id, kind) ==
    IF ab THEN BufferAndClose(HttpResponse(id, kind).body).body
    ELSE HttpResponse(id, kind).body

\* the zero AsyncResponse, which a receive on a closed and empty channel yields
ZeroAsync == [Response |-> NilResponse, Error |-> NoErr]

-----------------------------------------------------------------------------

\* Client.DoAsync, DoStreamAsync, DoGroupAsync, JoinAsyncResponses.

\* make(chan AsyncResponse): no buffer, a send waits for its receiver
NewChanUnbuffered == [buf |-> <<>>, closed |-> FALSE, sent |-> 0, cap |-> 0]

\* make(chan AsyncResponse, 1)
NewChan == [buf |-> <<>>, closed |-> FALSE, sent |-> 0, cap |-> 1]

\* the goroutine of JoinAsyncResponses: its loop index, results, and the out channel
NoJoin == [pc |-> "none", k |-> 0, n |-> 0, results |-> <<>>, out |-> <<>>]

\* a receive that does not wait (a select with a default case)
CanRecvAlways(ch) == TRUE

\* a receive can proceed when a value is buffered or the channel is closed
CanRecv(ch) == ch.buf /= <<>> \/ ch.closed

\* v, ok := <-ch
RecvVal(ch) ==
    IF ch.buf /= <<>> THEN [ok |-> TRUE, val |-> Head(ch.buf)]
    ELSE [ok |-> FALSE, val |-> ZeroAsync]

RecvChan(ch) == IF ch.buf /= <<>> THEN [ch EXCEPT !.buf = Tail(ch.buf)] ELSE ch

\* the loop of JoinAsyncResponses taking whichever channel holds a value first
JoinChannelFirstReady(k, chs) ==
    IF \E c \in 1..Len(chs) : chs[c].buf /= <<>>
    THEN CHOOSE c \in 1..Len(chs) :
           chs[c].buf /= <<>> /\ \A d \in 1..Len(chs) : chs[d].buf /= <<>> => c <= d
    ELSE k

\* for i, ch := range channels { results[i] = <-ch }: iteration k receives from channel k
JoinChannel(k, chs) == k

\* the outcomes of a request explored for the asynchronous dispatches: the ones that
\* give the three shapes of result (no response, a response, a response and an error)
AsyncKinds == {"transporterr", "ok", "closefail"}

\* the outcomes explored for the requests of a group: a request that fails to build
\* as well
GroupKinds == AsyncKinds \cup {"builderr"}

\* a dispatch that gives up with the error of any call of the group that failed
AsyncOfFailFast(ab, call) ==
    IF \E d \in 1..Len(calls) : calls[d].kind \in {"builderr", "transporterr"}
    THEN LET d == CHOOSE e \in 1..Len(calls) :
                    /\ calls[e].kind \in {"builderr", "transporterr"}
                    /\ \A f \in 1..e - 1 : calls[f].kind \notin {"builderr", "transporterr"}
         IN  Do(ab, calls[d].id, calls[d].kind)
    ELSE Do(ab, call.id, call.kind)

\* what the goroutine of a dispatch sends
AsyncOf(ab, call) ==
    IF call.api = "DoAsync" THEN Do(ab, call.id, call.kind) ELSE DoStream(call.id, call.kind)

AsyncIdle ==
    /\ autoBuffer = TRUE
    /\ mode = "idle"
    /\ calls = <<>>
    /\ tasks = <<>>
    /\ chans = <<>>
    /\ recvd = <<>>
    /\ join = NoJoin
    /\ finished = <<>>

InitAsync ==
    /\ autoBuffer \in BOOLEAN
    /\ mode = "new"
    /\ calls = <<>>
    /\ tasks = <<>>
    /\ chans = <<>>
    /\ recvd = <<>>
    /\ join = NoJoin
    /\ finished = <<>>

Dispatch(api, kind) ==
    /\ mode \in {"new", "single"}
    /\ join.pc = "none"
    /\ Len(calls) < MaxChans
    /\ mode' = "single"
    /\ calls' = Append(calls, [id |-> Len(calls) + 1, kind |-> kind, api |-> api])
    /\ tasks' = Append(tasks, "run")
    /\ chans' = Append(chans, NewChan)
    /\ recvd' = Append(recvd, <<>>)
    /\ UNCHANGED <<autoBuffer, join, finished>>
    /\ UNCHANGED notAsyncVars

\* DoAsync: a channel of capacity 1 and a goroutine
DoAsync == \E kind \in AsyncKinds : Dispatch("DoAsync", kind)

\* DoStreamAsync: a channel of capacity 1 and a goroutine
DoStreamAsync == \E kind \in AsyncKinds : Dispatch("DoStreamAsync", kind)

\* DoGroupAsync: DoAsync for each request, in order, then JoinAsyncResponses
DoGroupAsync ==
    /\ mode = "new"
    /\ \E n \in 0..MaxReqs : \E kinds \in [1..n -> GroupKinds] :
         /\ calls' = [c \in 1..n |-> [id |-> c, kind |-> kinds[c], api |-> "DoAsync"]]
         /\ tasks' = [c \in 1..n |-> "run"]
         /\ chans' = [c \in 1..n |-> NewChan]
         /\ recvd' = [c \in 1..n |-> <<>>]
         /\ join' = [NoJoin EXCEPT !.pc = "loop", !.k = 1, !.n = n,
                                   !.results = [c \in 1..n |-> ZeroAsync]]
    /\ mode' = "group"
    /\ UNCHANGED <<autoBuffer, finished>>
    /\ UNCHANGED notAsyncVars

\* JoinAsyncResponses over the channels the caller holds, in the order of their dispatch
JoinAsyncResponses ==
    /\ mode = "single"
    /\ join.pc = "none"
    /\ join' = [NoJoin EXCEPT !.pc = "loop", !.k = 1, !.n = Len(chans),
                              !.results = [c \in 1..Len(chans) |-> ZeroAsync]]
    /\ UNCHANGED <<autoBuffer, mode, calls, tasks, chans, recvd, finished>>
    /\ UNCHANGED notAsyncVars

\* the goroutine of a dispatch: the call, then the send, which finds the buffer empty
TaskRun ==
    \E c \in 1..Len(tasks) :
      /\ tasks[c] = "run"
      /\ Len(chans[c].buf) < chans[c].cap
      /\ chans' = [chans EXCEPT ![c].buf = Append(@, AsyncOf(autoBuffer, calls[c])),
                                ![c].sent = @ + 1]
      /\ tasks' = [tasks EXCEPT ![c] = IF calls[c].api = "DoAsync" THEN "sent" ELSE "exit"]
      /\ finished' = Append(finished, c)
      /\ UNCHANGED <<autoBuffer, mode, calls, recvd, join>>
      /\ UNCHANGED notAsyncVars

\* the deferred close(responseChan) of DoAsync's goroutine
TaskClose ==
    \E c \in 1..Len(tasks) :
      /\ tasks[c] = "sent"
      /\ chans' = [chans EXCEPT ![c].closed = TRUE]
      /\ tasks' = [tasks EXCEPT ![c] = "exit"]
      /\ UNCHANGED <<autoBuffer, mode, calls, recvd, join, finished>>
      /\ UNCHANGED notAsyncVars

\* the caller receives from a channel it holds; the receive blocks until it can proceed
Recv ==
    \E c \in 1..Len(chans) :
      /\ mode = "single"
      /\ Len(recvd[c]) < MaxRecvs
      /\ CanRecv(chans[c])
      /\ recvd' = [recvd EXCEPT ![c] = Append(@, RecvVal(chans[c]))]
      /\ chans' = [chans EXCEPT ![c] = RecvChan(@)]
      /\ UNCHANGED <<autoBuffer, mode, calls, tasks, join, finished>>
      /\ UNCHANGED notAsyncVars

\* one iteration of the loop of JoinAsyncResponses
JoinRecv ==
    /\ join.pc = "loop"
    /\ join.k <= join.n
    /\ LET c == JoinChannel(join.k, chans)
       IN  /\ CanRecv(chans[c])
           /\ join' = [join EXCEPT !.results[join.k] = RecvVal(chans[c]).val, !.k = @ + 1]
           /\ chans' = [chans EXCEPT ![c] = RecvChan(@)]
    /\ UNCHANGED <<autoBuffer, mode, calls, tasks, recvd, finished>>
    /\ UNCHANGED notAsyncVars

\* out <- results, after the loop
JoinEmit ==
    /\ join.pc = "loop"
    /\ join.k > join.n
    /\ join' = [join EXCEPT !.pc = "exit", !.out = <<join.results>>]
    /\ UNCHANGED <<autoBuffer, mode, calls, tasks, chans, recvd, finished>>
    /\ UNCHANGED notAsyncVars

-----------------------------------------------------------------------------

\* LoggingMiddlewareWithConfig.

\* one write to logger: the marker of the record, the part of it that went through
\* config.Redactor ("whole", "dump" or "none"), whether it holds a dump, the body
\* bytes it holds, and the error it reports
Rec(marker, redact, dump, withBody, body, e) ==
    [marker |-> marker, redact |-> redact, dump |-> dump, withBody |-> withBody,
     body |-> body, err |-> e]

\* the error of httputil.DumpRequestOut / DumpResponse for a message it cannot write
DumpError == ErrOf("dump", "dump error", 0)

\* a nil *http.Response
NilHttpResponse == [nil |-> TRUE, status |-> 0, header |-> <<>>, body |-> NoBody]

\* return resp, nil with the error of the failed dump returned instead
DumpFailureReturned(dumpErr) == dumpErr

\* after a failed read or dump of the response: return resp, nil (err = nil)
DumpFailureResult(dumpErr) == NoErr

\* the closure up to the call of next, in src/gorest/middleware.go: the body is read
\* and replaced, the request is dumped without its body, the record is written
LoggingRequestGorest(cfg, body, dumpFails) ==
    LET r == ReadAll(body)
        readErr == body.present /\ r.err /= NoErr
        reqBytes == IF body.present /\ ~readErr THEN r.data ELSE <<>>
    IN  [body |-> IF body.present THEN Reader(reqBytes) ELSE body,
         writes |->
           (IF readErr
            THEN <<Rec("Request Dump Error", "none", FALSE, FALSE, <<>>, r.err)>> ELSE <<>>)
           \o (IF dumpFails
               THEN <<Rec("Request Dump Error", "none", FALSE, FALSE, <<>>, DumpError)>>
               ELSE <<>>)
           \o <<Rec("Request", "whole", ~dumpFails, cfg.dumpRequestBody,
                    IF cfg.dumpRequestBody THEN reqBytes ELSE <<>>, NoErr)>>]

\* the closure up to the call of next, in src/unnamed/part_001: DumpRequestOut reads the
\* body when asked to dump it and leaves a copy, or the consumed body when the read failed
LoggingRequestUnnamed(cfg, body, dumpFails) ==
    LET reads == cfg.dumpRequestBody /\ body.present
        r == ReadAll(body)
        readErr == reads /\ r.err /= NoErr
        e == IF readErr THEN r.err ELSE IF dumpFails THEN DumpError ELSE NoErr
    IN  [body |-> IF reads THEN (IF readErr THEN Consumed(body) ELSE Reader(r.data)) ELSE body,
         writes |->
           IF e = NoErr
           THEN <<Rec("Request", "dump", TRUE, reads, IF reads THEN r.data ELSE <<>>, NoErr)>>
           ELSE <<Rec("Request Dump Error", "none", FALSE, FALSE, <<>>, e)>>]

\* the closure up to the call of next with the Request record left out when the dump
\* of the request failed
LoggingRequestQuiet(cfg, body, dumpFails) ==
    LET q == IF cfg.variant = "gorest" THEN LoggingRequestGorest(cfg, body, dumpFails)
             ELSE LoggingRequestUnnamed(cfg, body, dumpFails)
    IN  [q EXCEPT !.writes = SelectSeq(@, LAMBDA w : w.marker /= "Request" \/ ~dumpFails)]

LoggingRequest(cfg, body, dumpFails) ==
    IF cfg.variant = "gorest" THEN LoggingRequestGorest(cfg, body, dumpFails)
    ELSE LoggingRequestUnnamed(cfg, body, dumpFails)

\* the closure after next returned a response, in src/gorest/middleware.go
LoggingResponseGorest(cfg, out) ==
    LET r == ReadAll(out.body)
        readErr == out.body.present /\ r.err /= NoErr
        respBytes == IF out.body.present /\ ~readErr THEN r.data ELSE <<>>
    IN  [resp |-> [nil |-> FALSE, status |-> out.status, header |-> out.header,
                   body |-> IF out.body.present THEN Reader(respBytes) ELSE out.body],
         err |-> IF readErr THEN DumpFailureResult(r.err)
                 ELSE IF out.dumpFails THEN DumpFailureResult(DumpError) ELSE NoErr,
         writes |->
           (IF readErr
            THEN <<Rec("Response Dump Error", "none", FALSE, FALSE, <<>>, r.err)>> ELSE <<>>)
           \o (IF out.dumpFails
               THEN <<Rec("Response Dump Error", "none", FALSE, FALSE, <<>>, DumpError)>>
               ELSE <<>>)
           \o <<Rec("Response", "whole", ~out.dumpFails, cfg.dumpResponseBody,
                    IF cfg.dumpResponseBody THEN respBytes ELSE <<>>, NoErr)>>]

\* the closure after next returned a response, in src/unnamed/part_001
LoggingResponseUnnamed(cfg, out) ==
    LET reads == cfg.dumpResponseBody /\ out.body.present
        r == ReadAll(out.body)
        readErr == reads /\ r.err /= NoErr
        e == IF readErr THEN r.err ELSE IF out.dumpFails THEN DumpError ELSE NoErr
    IN  [resp |-> [nil |-> FALSE, status |-> out.status, header |-> out.header,
                   body |-> IF reads
                            THEN (IF readErr THEN Consumed(out.body) ELSE Reader(r.data))
                            ELSE out.body],
         err |-> IF e = NoErr THEN NoErr ELSE DumpFailureResult(e),
         writes |->
           IF e = NoErr
           THEN <<Rec("Response", "dump", TRUE, reads, IF reads THEN r.data ELSE <<>>, NoErr)>>
           ELSE <<Rec("Response Dump Error", "none", FALSE, FALSE, <<>>, e)>>]

\* the closure after next returned: an error is logged and returned with resp as it is
LoggingResponse(cfg, out) ==
    IF out.kind = "err"
    THEN [resp |-> NilHttpResponse, err |-> out.err,
          writes |-> <<Rec("Request Error",
                           IF cfg.variant = "gorest" THEN "whole" ELSE "none",
                           FALSE, FALSE, <<>>, out.err)>>]
    ELSE IF cfg.variant = "gorest" THEN LoggingResponseGorest(cfg, out)
         ELSE LoggingResponseUnnamed(cfg, out)

\* the body of the response of the logging tests
RespBytes == <<5, 6>>

\* request bodies: none, readable, failing at once, failing after some bytes
LogBodies == {NoBody, Reader(BodyBytes), FailingReader, BrokenReader(BodyBytes)}

\* what next returns: an error, or a response
LogOutcomes ==
    {[kind |-> "err", err |-> e, status |-> 0, header |-> <<>>, body |-> NoBody,
      dumpFails |-> FALSE] : e \in TransportErrors}
    \cup {[kind |-> "resp", err |-> NoErr, status |-> st, header |-> <<"h">>, body |-> b,
           dumpFails |-> f] :
            st \in {200, 500},
            b \in {NoBody, Reader(RespBytes), FailingReader, BrokenReader(RespBytes)},
            f \in BOOLEAN}

NoOutcome ==
    [kind |-> "none", err |-> NoErr, status |-> 0, header |-> <<>>, body |-> NoBody,
     dumpFails |-> FALSE]

\* the config argument: nil, or a LoggingConfig whose Redactor may be nil
NilConfig ==
    [nil |-> TRUE, DumpRequestBody |-> FALSE, DumpResponseBody |-> FALSE, Redactor |-> "nil"]
GivenConfigs ==
    {NilConfig}
    \cup [nil : {FALSE}, DumpRequestBody : BOOLEAN, DumpResponseBody : BOOLEAN,
          Redactor : {"nil", "configured"}]

\* the config the closures use: a nil config is replaced by the default one, a nil
\* Redactor by the identity
DefaultedConfig(v, g) ==
    [variant |-> v,
     dumpRequestBody |-> IF g.nil THEN TRUE ELSE g.DumpRequestBody,
     dumpResponseBody |-> IF g.nil THEN TRUE ELSE g.DumpResponseBody,
     redactor |-> IF g.nil \/ g.Redactor = "nil" THEN "identity" ELSE "configured",
     given |-> g]

\* the records as written: one that goes through config.Redactor is the output of
\* the redactor in use
Written(writes, cfg) ==
    [k \in 1..Len(writes) |->
        [marker |-> writes[k].marker, redact |-> writes[k].redact, dump |-> writes[k].dump,
         withBody |-> writes[k].withBody, body |-> writes[k].body, err |-> writes[k].err,
         by |-> IF writes[k].redact = "none" THEN "none" ELSE cfg.redactor]]

NoLogResult == [returned |-> FALSE, resp |-> NilHttpResponse, err |-> NoErr]

LogIdle ==
    /\ logCfg = DefaultedConfig("gorest", NilConfig)
    /\ logReq = [body |-> NoBody, dumpFails |-> FALSE]
    /\ logPc = "idle"
    /\ logBody = NoBody
    /\ logInner = [calls |-> 0, given |-> NoBody, out |-> NoOutcome]
    /\ logResult = NoLogResult
    /\ sink = <<>>

InitLogging ==
    /\ logCfg \in {DefaultedConfig(v, g) : v \in Variants, g \in GivenConfigs}
    /\ logReq \in [body : LogBodies, dumpFails : BOOLEAN]
    /\ logPc = "start"
    /\ logBody = logReq.body
    /\ logInner = [calls |-> 0, given |-> NoBody, out |-> NoOutcome]
    /\ logResult = NoLogResult
    /\ sink = <<>>

\* the closure up to the call of next
LogRequest ==
    /\ logPc = "start"
    /\ LET q == LoggingRequest(logCfg, logBody, logReq.dumpFails)
       IN  /\ logBody' = q.body
           /\ sink' = sink \o Written(q.writes, logCfg)
    /\ logPc' = "call"
    /\ UNCHANGED <<logCfg, logReq, logInner, logResult>>
    /\ UNCHANGED notLogVars

\* resp, err := next(req)
LogInvoke ==
    /\ logPc = "call"
    /\ \E out \in LogOutcomes :
         logInner' = [calls |-> logInner.calls + 1, given |-> logBody, out |-> out]
    /\ logPc' = "returned"
    /\ UNCHANGED <<logCfg, logReq, logBody, logResult, sink>>
    /\ UNCHANGED notLogVars

\* the closure from the return of next to its own return
LogResponse ==
    /\ logPc = "returned"
    /\ LET p == LoggingResponse(logCfg, logInner.out)
       IN  /\ logResult' = [returned |-> TRUE, resp |-> p.resp, err |-> p.err]
           /\ sink' = sink \o Written(p.writes, logCfg)
    /\ logPc' = "done"
    /\ UNCHANGED <<logCfg, logReq, logBody, logInner>>
    /\ UNCHANGED notLogVars

-----------------------------------------------------------------------------

\* ParseRetryAfter called on its own.

\* the characters of the header values explored: digits, signs, the mark of an
\* HTTP-date and a character of no accepted form
HeaderChars == {"0", "2", "5", "-", "+", "D", "x"}

RECURSIVE HeadersOfLen(_)
HeadersOfLen(n) ==
    IF n = 0 THEN {<<>>}
    ELSE {Append(h, c) : h \in HeadersOfLen(n - 1), c \in HeaderChars}

Headers == UNION {HeadersOfLen(n) : n \in 0..MaxHeaderLen}

\* the baseline argument: absent, or one instant
Baselines == {<<>>, <<4>>, <<30>>}

\* time.Now() at the call
WallClocks == {1, 21}

NotParsed == [called |-> FALSE, ok |-> FALSE, d |-> 0, err |-> NoErr]

ParseIdle ==
    /\ parseArgs = [header |-> <<>>, baseline |-> <<>>, wall |-> 0]
    /\ parseResult = NotParsed

InitParse ==
    /\ parseArgs \in [header : Headers, baseline : Baselines, wall : WallClocks]
    /\ parseResult = NotParsed

\* d, err := ParseRetryAfter(header, baseline...)
ParseCall ==
    /\ ~parseResult.called
    /\ LET r == ParseRetryAfter(parseArgs.header, parseArgs.baseline, parseArgs.wall)
       IN  parseResult' = [called |-> TRUE, ok |-> r.ok, d |-> r.d, err |-> r.err]
    /\ UNCHANGED parseArgs
    /\ UNCHANGED notParseVars

-----------------------------------------------------------------------------

\* Response.Close, JSON, Bytes, SaveToFile, StreamChunks on a handle that Do or
\* DoStream returned.

EOFError == ErrOf("EOF", "EOF", 0)
DecodeError == ErrOf("json", "decode error", 0)
CreateError == ErrOf("os.Create", "create error", 0)
WriteError == ErrOf("write", "write error", 0)
FileCloseError == ErrOf("file close", "file close error", 0)
UsageError(n) == ErrOf("only one optional buffer size value is allowed", "", n)

\* Response.Bytes: the deferred Close runs after io.ReadAll and its error is returned
\* only when the read gave none
Bytes(b) ==
    LET r == ReadAllBody(b)
        c == CloseBody(r.body)
    IN  [data |-> r.data, err |-> IF r.err /= NoErr THEN r.err ELSE c.err, body |-> c.body]

\* Response.JSON: the decoder reads the body; a read error, an empty input or a value
\* that does not decode gives the error of Decode; the deferred Close runs last
JSON(b, decodeFails) ==
    LET r == ReadAllBody(b)
        e == IF r.err /= NoErr THEN r.err
             ELSE IF r.data = <<>> THEN EOFError
             ELSE IF decodeFails THEN DecodeError ELSE NoErr
        c == CloseBody(r.body)
    IN  [data |-> <<>>, err |-> IF e /= NoErr THEN e ELSE c.err, body |-> c.body]

\* SaveToFile with the Close of the body deferred only once the file is created
SaveToFileLeak(b, fault) ==
    IF fault = "create" THEN [data |-> <<>>, err |-> CreateError, body |-> b]
    ELSE LET r == ReadAllBody(b)
             copyErr == IF r.data /= <<>> /\ fault = "write" THEN WriteError ELSE r.err
             fileErr == IF copyErr /= NoErr THEN copyErr
                        ELSE IF fault = "fclose" THEN FileCloseError ELSE NoErr
             c == CloseBody(r.body)
         IN  [data |-> <<>>, err |-> IF fileErr /= NoErr THEN fileErr ELSE c.err,
              body |-> c.body]

\* Response.SaveToFile: os.Create, io.Copy, then the deferred f.Close and, last, the
\* deferred Close of the body; each deferred function sets err only when it is nil.
\* fault is what fails on the side of the file: "none", "create", "write", "fclose"
SaveToFile(b, fault) ==
    IF fault = "create"
    THEN [data |-> <<>>, err |-> CreateError, body |-> CloseBody(b).body]
    ELSE LET r == ReadAllBody(b)
             copyErr == IF r.data /= <<>> /\ fault = "write" THEN WriteError ELSE r.err
             fileErr == IF copyErr /= NoErr THEN copyErr
                        ELSE IF fault = "fclose" THEN FileCloseError ELSE NoErr
             c == CloseBody(r.body)
         IN  [data |-> <<>>, err |-> IF fileErr /= NoErr THEN fileErr ELSE c.err,
              body |-> c.body]

\* the least of two numbers
Min(x, y) == IF x <= y THEN x ELSE y

\* the ways the reads of a stream that still holds rem can go with a buffer of n
\* bytes: each read gives between 1 and n of the bytes left and a nil error, until a
\* last read gives term (io.EOF or a read error), with the last bytes or with none
RECURSIVE Scripts(_, _, _)
Scripts(rem, n, term) ==
    (IF Len(rem) <= n THEN {<<[data |-> rem, err |-> term]>>} ELSE {})
    \cup UNION {{<<[data |-> SubSeq(rem, 1, m), err |-> NoErr]>> \o s :
                    s \in Scripts(SubSeq(rem, m + 1, Len(rem)), n, term)} :
                 m \in 1..Min(n, Len(rem))}

\* the ways the reads of body b can go
ReadScripts(b, n) ==
    IF b.closed /\ ~b.nop THEN {<<[data |-> <<>>, err |-> ClosedBodyError]>>}
    ELSE Scripts(SubSeq(b.data, b.pos + 1, Len(b.data)), n,
                 IF b.failing THEN ReadError ELSE EOFError)

\* the loop of StreamChunks with the error tested before the chunk is delivered
RECURSIVE StreamLoopErrFirst(_)
StreamLoopErrFirst(script) ==
    IF script = <<>> THEN [chunks |-> <<>>, err |-> NoErr, reads |-> 0, n |-> 0]
    ELSE LET h == Head(script)
             rest == StreamLoopErrFirst(Tail(script))
         IN  IF h.err = EOFError
             THEN [chunks |-> <<>>, err |-> NoErr, reads |-> 1, n |-> Len(h.data)]
             ELSE IF h.err /= NoErr
                  THEN [chunks |-> <<>>, err |-> h.err, reads |-> 1, n |-> Len(h.data)]
                  ELSE [chunks |-> <<h.data>> \o rest.chunks, err |-> rest.err,
                        reads |-> 1 + rest.reads, n |-> Len(h.data) + rest.n]

\* the loop of StreamChunks over the reads of a script: the callback is given the bytes
\* of a read that gave some, then io.EOF ends the loop and another error is returned
RECURSIVE StreamLoop(_)
StreamLoop(script) ==
    IF script = <<>> THEN [chunks |-> <<>>, err |-> NoErr, reads |-> 0, n |-> 0]
    ELSE LET h == Head(script)
             given == IF Len(h.data) > 0 THEN <<h.data>> ELSE <<>>
             rest == StreamLoop(Tail(script))
         IN  IF h.err = EOFError
             THEN [chunks |-> given, err |-> NoErr, reads |-> 1, n |-> Len(h.data)]
             ELSE IF h.err /= NoErr
                  THEN [chunks |-> given, err |-> h.err, reads |-> 1, n |-> Len(h.data)]
                  ELSE [chunks |-> given \o rest.chunks, err |-> rest.err,
                        reads |-> 1 + rest.reads, n |-> Len(h.data) + rest.n]

\* bufSize := 4096
DefaultBufSize == 4096

\* the size of buf
BufSize(bufSizes) ==
    IF Len(bufSizes) = 1 /\ bufSizes[1] > 0 THEN bufSizes[1] ELSE DefaultBufSize

\* StreamChunks without the test of the number of buffer sizes: the first one is used
StreamChunksFirstSize(b, bufSizes, script) ==
    LET l == StreamLoop(script)
    IN  [chunks |-> l.chunks, err |-> l.err, reads |-> l.reads,
         body |-> [b EXCEPT !.pos = @ + l.n]]

\* Response.StreamChunks; script is how the reads of the body go
StreamChunks(b, bufSizes, script) ==
    IF Len(bufSizes) > 1
    THEN [chunks |-> <<>>, err |-> UsageError(Len(bufSizes)), reads |-> 0, body |-> b]
    ELSE LET l == StreamLoop(script)
         IN  [chunks |-> l.chunks, err |-> l.err, reads |-> l.reads,
              body |-> [b EXCEPT !.pos = @ + l.n]]

\* the bufSizes arguments explored: none, a size that is not positive, the sizes up
\* to MaxBufSize, and two sizes
BufSizeArgs == {<<>>, <<0>>, <<1, 2>>} \cup {<<n>> : n \in 1..MaxBufSize}

\* what fails on the side of the file in SaveToFile
FileFaults == {"none", "create", "write", "fclose"}

NoArgs == [decodeFails |-> FALSE, fault |-> "none", bufSizes |-> <<>>]

\* the handle: what Do or DoStream returned, with the Response as it was on return
\* (atReturn) and the body of the transport's response as it was then (transport)
NoHandle ==
    [made |-> FALSE, Response |-> NilResponse, Error |-> NoErr,
     atReturn |-> NilResponse, transport |-> NilResponse.body]

RespIdle ==
    /\ respCfg = [autoBuffer |-> TRUE, stream |-> FALSE, kind |-> "ok"]
    /\ respHandle = NoHandle
    /\ respCalls = <<>>

InitResponse ==
    /\ respCfg \in [autoBuffer : BOOLEAN, stream : BOOLEAN, kind : CallKinds]
    /\ respHandle = NoHandle
    /\ respCalls = <<>>

\* res, err := client.Do(ctx, req), or client.DoStream(ctx, req)
ResponseDo ==
    /\ ~respHandle.made
    /\ LET a == IF respCfg.stream THEN DoStream(1, respCfg.kind)
                ELSE Do(respCfg.autoBuffer, 1, respCfg.kind)
       IN  respHandle' =
             [made |-> TRUE, Response |-> a.Response, Error |-> a.Error,
              atReturn |-> a.Response,
              transport |-> IF respCfg.kind \in {"builderr", "transporterr"}
                            THEN NilResponse.body
                            ELSE TransportBody(~respCfg.stream /\ respCfg.autoBuffer, 1,
                                               respCfg.kind)]
    /\ UNCHANGED <<respCfg, respCalls>>
    /\ UNCHANGED notRespVars

\* a method call on the handle: its record in respCalls and the body it leaves
MethodCall(op, args, r, chunks, reads) ==
    /\ respCalls' = Append(respCalls,
         [op |-> op, args |-> args, before |-> respHandle.Response.body,
          data |-> r.data, err |-> r.err,
          closes |-> r.body.closes - respHandle.Response.body.closes,
          chunks |-> chunks, reads |-> reads, after |-> r.body])
    /\ respHandle' = [respHandle EXCEPT !.Response.body = r.body]
    /\ UNCHANGED respCfg
    /\ UNCHANGED notRespVars

\* the handle holds a response and the caller makes one more call on it
CanCall ==
    /\ respHandle.made
    /\ ~respHandle.Response.nil
    /\ Len(respCalls) < MaxCalls

\* body, err := res.Bytes()
ResponseBytes ==
    /\ CanCall
    /\ MethodCall("Bytes", NoArgs, Bytes(respHandle.Response.body), <<>>, 1)

\* err := res.Close()
ResponseClose ==
    /\ CanCall
    /\ LET c == CloseBody(respHandle.Response.body)
       IN  MethodCall("Close", NoArgs, [data |-> <<>>, err |-> c.err, body |-> c.body],
                      <<>>, 0)

\* err := res.JSON(&v)
ResponseJSON ==
    /\ CanCall
    /\ \E decodeFails \in BOOLEAN :
         MethodCall("JSON", [NoArgs EXCEPT !.decodeFails = decodeFails],
                    JSON(respHandle.Response.body, decodeFails), <<>>, 1)

\* err := res.SaveToFile(path)
ResponseSaveToFile ==
    /\ CanCall
    /\ \E fault \in FileFaults :
         MethodCall("SaveToFile", [NoArgs EXCEPT !.fault = fault],
                    SaveToFile(respHandle.Response.body, fault), <<>>,
                    IF fault = "create" THEN 0 ELSE 1)

\* err := res.StreamChunks(callback, bufSizes...)
ResponseStreamChunks ==
    /\ CanCall
    /\ \E bufSizes \in BufSizeArgs :
         \E script \in ReadScripts(respHandle.Response.body, BufSize(bufSizes)) :
           LET r == StreamChunks(respHandle.Response.body, bufSizes, script)
           IN  MethodCall("StreamChunks", [NoArgs EXCEPT !.bufSizes = bufSizes],
                          [data |-> <<>>, err |-> r.err, body |-> r.body],
                          r.chunks, r.reads)

-----------------------------------------------------------------------------

\* Request: NewRequest, WithHeader, WithHeaders, WithJSONBody, BuildHTTPRequest, and
\* the Client calls that send it.

LowerLetters ==
    <<"a", "b", "c", "d", "e", "f", "g", "h", "i", "j", "k", "l", "m",
      "n", "o", "p", "q", "r", "s", "t", "u", "v", "w", "x", "y", "z">>
UpperLetters ==
    <<"A", "B", "C", "D", "E", "F", "G", "H", "I", "J", "K", "L", "M",
      "N", "O", "P", "Q", "R", "S", "T", "U", "V", "W", "X", "Y", "Z">>

\* unicode.ToUpper and unicode.ToLower on the letters
ToUpper ==
    [c \in {LowerLetters[n] : n \in 1..26} |->
        UpperLetters[CHOOSE n \in 1..26 : LowerLetters[n] = c]]
ToLower ==
    [c \in {UpperLetters[n] : n \in 1..26} |->
        LowerLetters[CHOOSE n \in 1..26 : UpperLetters[n] = c]]

Upper(c) == IF c \in DOMAIN ToUpper THEN ToUpper[c] ELSE c
Lower(c) == IF c \in DOMAIN ToLower THEN ToLower[c] ELSE c

\* textproto.CanonicalMIMEHeaderKey of a key of letters and hyphens: the first letter
\* and each letter after a hyphen in upper case, the others in lower case
CanonicalMIMEHeaderKey(key) ==
    [n \in 1..Len(key) |->
        IF n = 1 \/ key[n - 1] = "-" THEN Upper(key[n]) ELSE Lower(key[n])]

\* the header keys and values written by the callers explored; two of the keys differ
\* only in the case of their letters
Keys == {<<"x", "-", "a">>, <<"X", "-", "A">>, <<"b">>}
Values == {"1", "2"}
ContentType == <<"C", "o", "n", "t", "e", "n", "t", "-", "T", "y", "p", "e">>

\* a map[string]string without entries
NoHeaders == [k \in {} |-> "1"]

\* the maps given to WithHeaders: one or two entries
HeaderMaps == UNION {[D -> Values] : D \in (SUBSET Keys) \ {{}, Keys}}

\* the URLs given to NewRequest: empty, one url.Parse rejects, one it accepts
URLs == {<<>>, <<":", "b">>, <<"h", ":", "/">>}

\* url.Parse fails with "missing protocol scheme" on a URL that starts with a colon
ParseFails(u) == u /= <<>> /\ u[1] = ":"

MarshalError == ErrOf("json", "unsupported type", 0)
EmptyURLError == ErrOf("request URL is empty", "", 0)
InvalidURLError == [ErrOf("invalid URL", "missing protocol scheme", 0) EXCEPT !.value = <<0>>]

NewRequest(u) == [url |-> u, headers |-> NoHeaders, buildErr |-> NoErr, hasBody |-> FALSE]

\* r.headers[k] = v for each entry of m
SetHeaders(r, m) == [r EXCEPT !.headers = m @@ @]

\* the orders in which range can visit the keys of a map
RECURSIVE Perms(_)
Perms(S) ==
    IF S = {} THEN {<<>>}
    ELSE UNION {{<<x>> \o p : p \in Perms(S \ {x})} : x \in S}

\* httpReq.Header.Set(key, value) for the keys of headers in the order visited
RECURSIVE HeaderSetAll(_, _, _)
HeaderSetAll(h, headers, order) ==
    IF order = <<>> THEN h
    ELSE HeaderSetAll((CanonicalMIMEHeaderKey(Head(order)) :> headers[Head(order)]) @@ h,
                      headers, Tail(order))

NilHttpRequest == [nil |-> TRUE, url |-> <<>>, header |-> NoHeaders]

\* Request.BuildHTTPRequest; order is the order in which range visits r.headers
BuildHTTPRequest(r, order) ==
    IF r.buildErr /= NoErr THEN [req |-> NilHttpRequest, err |-> r.buildErr]
    ELSE IF r.url = <<>> THEN [req |-> NilHttpRequest, err |-> EmptyURLError]
    ELSE IF ParseFails(r.url) THEN [req |-> NilHttpRequest, err |-> InvalidURLError]
    ELSE [req |-> [nil |-> FALSE, url |-> r.url,
                   header |-> HeaderSetAll(NoHeaders, r.headers, order)],
          err |-> NoErr]

SyncApis == {"Do", "DoStream"}
AsyncApis == {"DoAsync", "DoStreamAsync"}
StreamApis == {"DoStream", "DoStreamAsync"}

\* what the transport does with a request that was built
BuildKinds == {"ok", "transporterr"}

\* the call with the error of BuildHTTPRequest ignored
CallUnchecked(api, ab, r, order, kind) ==
    LET b == BuildHTTPRequest(r, order)
        a == IF api \in StreamApis THEN DoStream(1, kind) ELSE Do(ab, 1, kind)
    IN  [Response |-> a.Response, Error |-> a.Error, sent |-> <<b.req>>]

\* Client.Do (which DoAsync runs) and Client.DoStream (which DoStreamAsync runs) on
\* Request r: the error of BuildHTTPRequest returns at once, else c.client.Do(httpReq)
\* runs the chain and the transport
Call(api, ab, r, order, kind) ==
    LET b == BuildHTTPRequest(r, order)
        a == IF api \in StreamApis THEN DoStream(1, kind) ELSE Do(ab, 1, kind)
    IN  IF b.err /= NoErr
        THEN [Response |-> NilResponse, Error |-> b.err, sent |-> <<>>]
        ELSE [Response |-> a.Response, Error |-> a.Error, sent |-> <<b.req>>]

NoOut == [returned |-> FALSE, Response |-> NilResponse, Error |-> NoErr]

NoDispatch ==
    [pc |-> "building", api |-> "none", ab |-> TRUE, kind |-> "ok", ch |-> NewChan,
     out |-> NoOut]

BuildIdle ==
    /\ request = NewRequest(<<>>)
    /\ applied = <<>>
    /\ dispatch = NoDispatch
    /\ wire = <<>>

\* req := NewRequest("GET", url)
InitBuild ==
    /\ request \in {NewRequest(u) : u \in URLs}
    /\ applied = <<>>
    /\ dispatch = NoDispatch
    /\ wire = <<>>

CanWrite == dispatch.pc = "building" /\ Len(applied) < MaxHeaderWrites

\* req.WithHeader(key, value)
WithHeader ==
    /\ CanWrite
    /\ \E k \in Keys, v \in Values :
         /\ request' = SetHeaders(request, k :> v)
         /\ applied' = Append(applied, k :> v)
    /\ UNCHANGED <<dispatch, wire>>
    /\ UNCHANGED notBuildVars

\* req.WithHeaders(headers)
WithHeaders ==
    /\ CanWrite
    /\ \E m \in HeaderMaps :
         /\ request' = SetHeaders(request, m)
         /\ applied' = Append(applied, m)
    /\ UNCHANGED <<dispatch, wire>>
    /\ UNCHANGED notBuildVars

\* req.WithJSONBody(data): json.Marshal fails and the error is recorded, or the body is
\* set and WithHeader writes the Content-Type
WithJSONBody ==
    /\ CanWrite
    /\ \E fails \in BOOLEAN :
         IF fails
         THEN /\ request' = [request EXCEPT !.buildErr = MarshalError]
              /\ applied' = Append(applied, NoHeaders)
         ELSE /\ request' = [SetHeaders(request, ContentType :> "application/json")
                               EXCEPT !.hasBody = TRUE]
              /\ applied' = Append(applied, ContentType :> "application/json")
    /\ UNCHANGED <<dispatch, wire>>
    /\ UNCHANGED notBuildVars

\* res, err := client.Do(ctx, req), or client.DoStream(ctx, req)
CallSync ==
    /\ dispatch.pc = "building"
    /\ \E api \in SyncApis, ab \in BOOLEAN, kind \in BuildKinds :
       \E order \in Perms(DOMAIN request.headers) :
         LET a == Call(api, ab, request, order, kind)
         IN  /\ api \in StreamApis => ab
             /\ dispatch' = [dispatch EXCEPT !.pc = "returned", !.api = api, !.ab = ab,
                               !.kind = kind,
                               !.out = [returned |-> TRUE, Response |-> a.Response,
                                        Error |-> a.Error]]
             /\ wire' = wire \o a.sent
    /\ UNCHANGED <<request, applied>>
    /\ UNCHANGED notBuildVars

\* ch := client.DoAsync(ctx, req), or client.DoStreamAsync(ctx, req): the channel is
\* made and the goroutine started
CallAsync ==
    /\ dispatch.pc = "building"
    /\ \E api \in AsyncApis, ab \in BOOLEAN, kind \in BuildKinds :
         /\ api \in StreamApis => ab
         /\ dispatch' = [dispatch EXCEPT !.pc = "spawned", !.api = api, !.ab = ab,
                           !.kind = kind, !.ch = NewChan]
    /\ UNCHANGED <<request, applied, wire>>
    /\ UNCHANGED notBuildVars

\* the goroutine: res, err := c.Do(ctx, req); ch <- AsyncResponse{res, err}; DoAsync
\* closes the channel when the goroutine returns
Goroutine ==
    /\ dispatch.pc = "spawned"
    /\ \E order \in Perms(DOMAIN request.headers) :
         LET a == Call(dispatch.api, dispatch.ab, request, order, dispatch.kind)
         IN  /\ dispatch' = [dispatch EXCEPT !.pc = "sent",
                               !.ch = [buf |-> <<[Response |-> a.Response,
                                                  Error |-> a.Error]>>,
                                       closed |-> dispatch.api = "DoAsync",
                                       sent |-> 1]]
             /\ wire' = wire \o a.sent
    /\ UNCHANGED <<request, applied>>
    /\ UNCHANGED notBuildVars

\* result := <-ch
Receive ==
    /\ dispatch.pc = "sent"
    /\ dispatch' = [dispatch EXCEPT !.pc = "returned",
                      !.ch.buf = Tail(@),
                      !.out = [returned |-> TRUE,
                               Response |-> RecvVal(dispatch.ch).val.Response,
                               Error |-> RecvVal(dispatch.ch).val.Error]]
    /\ UNCHANGED <<request, applied, wire>>
    /\ UNCHANGED notBuildVars

-----------------------------------------------------------------------------

\* RetryMiddleware as one middleware of a chain built by ChainMiddlewares, with
\* decorators before and after it in the list, called by two goroutines at once.
\* A decorator here calls next once and returns what next returned.  The sleeps
\* between the attempts are those of SpecRetry and are left out of the steps here.

Callers == {1, 2}

\* the middleware lists: Retry with a decorator before it, after it, or both
StackChains ==
    {<<"D1", "Retry">>, <<"Retry", "D1">>, <<"D1", "Retry", "D2">>, <<"D2", "Retry", "D1">>}

\* req.Body of the request of caller c
CallerBody(c) == Reader(<<c>>)

\* what the terminal may return: a transport error, a 500, a 200
StackOutcomes ==
    {o \in Outcomes : (o.kind = "err" /\ o.err = ErrOf("transport", "E1", 0))
                      \/ o.status \in {200, 500}}

\* the locals declared in the enclosing function, where every call shares them
FrameOfShared(c) == 1

\* bodyBytes, i, resp and err are locals of the closure func(req): each call of it has
\* its own
FrameOf(c) == c

NoResp == [nil |-> TRUE, status |-> 0, for |-> 0, attempt |-> 0]

\* the *http.Response the terminal returns to caller c on attempt a
RespOf(o, c, a) == [nil |-> FALSE, status |-> o.status, for |-> c, attempt |-> a]

\* what a RoundTripFunc returns
Out(r, e) == [set |-> TRUE, resp |-> r, err |-> e]
NotYet == [set |-> FALSE, resp |-> NoResp, err |-> NoErr]

NewFrame == [i |-> 0, bodyBytes |-> <<>>, resp |-> NoResp, err |-> NoErr]
NewCall == [pc |-> "start", log |-> <<>>, result |-> NotYet]

\* the layers of exec outside and inside the Retry layer, outermost first
RetryAt(exec) == CHOOSE k \in 1..Len(exec) : exec[k] = "Retry"
OuterLayers(exec) == SubSeq(exec, 1, RetryAt(exec) - 1)
InnerLayers(exec) == SubSeq(exec, RetryAt(exec) + 1, Len(exec))

\* the layers are entered outermost first with the request, and return innermost first
Down(layers, a, body) ==
    [k \in 1..Len(layers) |->
        [who |-> layers[k], side |-> "req", attempt |-> a, body |-> body, out |-> NotYet]]
Up(layers, a, out) ==
    [k \in 1..Len(layers) |->
        [who |-> layers[Len(layers) + 1 - k], side |-> "resp", attempt |-> a,
         body |-> <<>>, out |-> out]]

StackIdle ==
    /\ stackCfg = [chain |-> <<"Retry">>, exec |-> <<"Retry", "T">>, attempts |-> 1,
                   variant |-> "gorest"]
    /\ frames = [c \in Callers |-> NewFrame]
    /\ stackCalls = [c \in Callers |-> NewCall]

\* exec := ChainMiddlewares(terminal, chain...) with RetryMiddleware(attempts, delay)
InitStack ==
    /\ \E ch \in StackChains, n \in 1..MaxAttempts, v \in Variants :
         stackCfg = [chain |-> ch, exec |-> ChainMiddlewares(Terminal, ch), attempts |-> n,
                     variant |-> v]
    /\ frames = [c \in Callers |-> NewFrame]
    /\ stackCalls = [c \in Callers |-> NewCall]

\* caller c calls exec(req): the layers outside Retry run down to it, and Retry
\* buffers the body
StackEnter(c) ==
    /\ stackCalls[c].pc = "start"
    /\ LET b == BufferBody(CallerBody(c))
           outer == OuterLayers(stackCfg.exec)
           down == Down(outer, 0, Remaining(CallerBody(c)))
       IN  IF b.abort
           THEN /\ stackCalls' = [stackCalls EXCEPT ![c] =
                     [pc |-> "done", log |-> down \o Up(outer, 0, Out(NoResp, b.err)),
                      result |-> Out(NoResp, b.err)]]
                /\ UNCHANGED frames
           ELSE /\ stackCalls' = [stackCalls EXCEPT ![c].pc = "loop", ![c].log = down]
                /\ frames' = [frames EXCEPT ![FrameOf(c)] =
                                [NewFrame EXCEPT !.bodyBytes = b.bytes]]
    /\ UNCHANGED stackCfg
    /\ UNCHANGED notStackVars

\* one iteration of caller c's loop: next(reqAttempt) runs the layers inside Retry
\* down to the terminal and back, then the outcome is returned or retried
StackAttempt(c) ==
    /\ stackCalls[c].pc = "loop"
    /\ LoopContinues(frames[FrameOf(c)].i, stackCfg.attempts)
    /\ \E o \in StackOutcomes :
         LET fr == frames[FrameOf(c)]
             given == Remaining(AttemptBody(CallerBody(c), fr.bodyBytes))
             r == IF o.kind = "err" THEN NoResp ELSE RespOf(o, c, fr.i)
             out == Out(r, o.err)
             inner == InnerLayers(stackCfg.exec)
             seen == Down(inner, fr.i, given) \o Up(inner, fr.i, out)
             cl == Classify(stackCfg.variant, o, 0, 1)
         IN  IF cl.next = "return"
             THEN /\ stackCalls' = [stackCalls EXCEPT ![c] =
                       [pc |-> "done",
                        log |-> @.log \o seen \o Up(OuterLayers(stackCfg.exec), 0, out),
                        result |-> out]]
                  /\ frames' = [frames EXCEPT ![FrameOf(c)].resp = r,
                                              ![FrameOf(c)].err = o.err]
             ELSE /\ stackCalls' = [stackCalls EXCEPT ![c].log = @ \o seen]
                  /\ frames' = [frames EXCEPT ![FrameOf(c)].resp = r,
                                              ![FrameOf(c)].err = o.err,
                                              ![FrameOf(c)].i = @ + 1]
    /\ UNCHANGED stackCfg
    /\ UNCHANGED notStackVars

\* caller c's loop ends: the code after the loop returns through the outer layers
StackExhausted(c) ==
    /\ stackCalls[c].pc = "loop"
    /\ ~LoopContinues(frames[FrameOf(c)].i, stackCfg.attempts)
    /\ LET fr == frames[FrameOf(c)]
           p == ExhaustedReturn(stackCfg.variant, IF fr.resp.nil THEN 0 ELSE 1, fr.err,
                                <<fr.resp>>)
           out == [set |-> TRUE, resp |-> IF p.resp = 1 THEN fr.resp ELSE NoResp,
                   err |-> p.err]
       IN  stackCalls' = [stackCalls EXCEPT ![c] =
                 [pc |-> "done", log |-> @.log \o Up(OuterLayers(stackCfg.exec), 0, out),
                  result |-> out]]
    /\ UNCHANGED <<stackCfg, frames>>
    /\ UNCHANGED notStackVars

-----------------------------------------------------------------------------

\* The specifications.

\* no Retry call is in progress
RetryIdle ==
    /\ variant = "gorest"
    /\ attempts = 0
    /\ retryDelay = 0
    /\ callerBody = NoBody
    /\ reqBody = NoBody
    /\ preCancelled = FALSE
    /\ cancelled = FALSE
    /\ pc = "idle"
    /\ i = 0
    /\ bodyBytes = <<>>
    /\ bodyReads = 0
    /\ resp = 0
    /\ err = NoErr
    /\ pendingSleep = 0
    /\ result = NotReturned
    /\ history = <<>>
    /\ sleeps = <<>>
    /\ clock = 0
    /\ reqAttempt = NoBody
    /\ headerHeap = <<>>
    /\ attemptHeader = 0

NextRetry ==
    \/ RetryBegin
    \/ RetryAttemptStart
    \/ RetryBackoff
    \/ RetryInvoke
    \/ RetrySleep
    \/ RetryExhausted
    \/ Cancel

NextChain ==
    \/ WithMiddlewares
    \/ ClientDo
    \/ ChainDirect
    \/ ChainEnter
    \/ ChainTerminal
    \/ ChainLeave
    \/ ChainReturn

NextAsync ==
    \/ DoAsync
    \/ DoStreamAsync
    \/ DoGroupAsync
    \/ JoinAsyncResponses
    \/ TaskRun
    \/ TaskClose
    \/ Recv
    \/ JoinRecv
    \/ JoinEmit

\* DoGroupAsync alone: its producers and the goroutine of JoinAsyncResponses
NextGroup ==
    \/ DoGroupAsync
    \/ TaskRun
    \/ TaskClose
    \/ JoinRecv
    \/ JoinEmit

NextStack ==
    \/ \E c \in Callers : StackEnter(c)
    \/ \E c \in Callers : StackAttempt(c)
    \/ \E c \in Callers : StackExhausted(c)

NextBuild ==
    \/ WithHeader
    \/ WithHeaders
    \/ WithJSONBody
    \/ CallSync
    \/ CallAsync
    \/ Goroutine
    \/ Receive

NextResponse ==
    \/ ResponseDo
    \/ ResponseBytes
    \/ ResponseClose
    \/ ResponseJSON
    \/ ResponseSaveToFile
    \/ ResponseStreamChunks

NextParse ==
    \/ ParseCall

NextLogging ==
    \/ LogRequest
    \/ LogInvoke
    \/ LogResponse

InitRetrySpec == InitRetry /\ InitChain /\ AsyncIdle /\ LogIdle /\ ParseIdle /\ RespIdle /\ BuildIdle /\ StackIdle

InitChainSpec == RetryIdle /\ InitChain /\ AsyncIdle /\ LogIdle /\ ParseIdle /\ RespIdle /\ BuildIdle /\ StackIdle

InitAsyncSpec == RetryIdle /\ InitChain /\ InitAsync /\ LogIdle /\ ParseIdle /\ RespIdle /\ BuildIdle /\ StackIdle

InitLoggingSpec == RetryIdle /\ InitChain /\ AsyncIdle /\ InitLogging /\ ParseIdle /\ RespIdle /\ BuildIdle /\ StackIdle

InitParseSpec == RetryIdle /\ InitChain /\ AsyncIdle /\ LogIdle /\ InitParse /\ RespIdle /\ BuildIdle /\ StackIdle

InitResponseSpec == RetryIdle /\ InitChain /\ AsyncIdle /\ LogIdle /\ ParseIdle /\ InitResponse /\ BuildIdle /\ StackIdle

InitBuildSpec ==
    RetryIdle /\ InitChain /\ AsyncIdle /\ LogIdle /\ ParseIdle /\ RespIdle /\ InitBuild
    /\ StackIdle

InitStackSpec ==
    RetryIdle /\ InitChain /\ AsyncIdle /\ LogIdle /\ ParseIdle /\ RespIdle /\ BuildIdle
    /\ InitStack

\* one call through a RoundTripFunc decorated by RetryMiddleware
SpecRetry == InitRetrySpec /\ [][NextRetry]_vars

\* one call through a chain built by ChainMiddlewares, directly or by a Client
SpecChain == InitChainSpec /\ [][NextChain]_vars

\* the asynchronous dispatches of one caller of a Client
SpecAsync == InitAsyncSpec /\ [][NextAsync]_vars

\* The producers of a group under fair scheduling. Weak fairness of TaskRun says that
\* every dispatched call returns and that its goroutine, which is then at a send the
\* buffer admits, is scheduled; weak fairness of TaskClose that the goroutine runs its
\* deferred close. The goroutine of JoinAsyncResponses is not assumed to run.
SpecGroupFair ==
    /\ InitAsyncSpec
    /\ [][NextGroup]_vars
    /\ WF_vars(TaskRun)
    /\ WF_vars(TaskClose)

\* one call through a RoundTripFunc decorated by LoggingMiddlewareWithConfig
SpecLogging == InitLoggingSpec /\ [][NextLogging]_vars

\* one call of ParseRetryAfter
SpecParse == InitParseSpec /\ [][NextParse]_vars

\* one Response obtained from Do or DoStream and the calls made on it
SpecResponse == InitResponseSpec /\ [][NextResponse]_vars

\* one Request built by its caller and sent by one call of the Client
SpecBuild == InitBuildSpec /\ [][NextBuild]_vars

\* two concurrent calls through a chain that holds RetryMiddleware
SpecStack == InitStackSpec /\ [][NextStack]_vars

-----------------------------------------------------------------------------
\* Vocabulary of the properties.

RECURSIVE Reverse(_)
Reverse(q) == IF q = <<>> THEN <<>> ELSE Append(Reverse(Tail(q)), Head(q))

RECURSIVE Flatten(_)
Flatten(qs) == IF qs = <<>> THEN <<>> ELSE Head(qs) \o Flatten(Tail(qs))

IsReq(e) == e.side = "req"
IsResp(e) == e.side = "resp"

\* the names of the layers whose request-side (response-side) logic ran, in order
ReqNames == [k \in 1..Len(SelectSeq(trace, IsReq)) |-> SelectSeq(trace, IsReq)[k].who]
RespNames == [k \in 1..Len(SelectSeq(trace, IsResp)) |-> SelectSeq(trace, IsResp)[k].who]

Prefix(q, n) == SubSeq(q, 1, n)

\* the Retry call has ended (returned or panicked)
Ended == pc \in {"done", "panic"}

Returned == pc = "done"

\* the Retry-After value h of a 429 is present and parses
Parseable(h) == h /= <<>> /\ (Atoi(h).ok \/ ParseTime(h).ok)

\* the outcome of an attempt consumes it: a transport error or a retryable status
Is429Parseable(h) == h.kind = "resp" /\ h.status = 429 /\ Parseable(h.retryAfter)
Is429Final(h) == h.kind = "resp" /\ h.status = 429 /\ ~Parseable(h.retryAfter)
RetryableOutcome(h) ==
    h.kind = "err" \/ Is429Parseable(h) \/ (h.kind = "resp" /\ h.status >= 500)
NonRetryableResponse(h) == h.kind = "resp" /\ ~RetryableOutcome(h)

\* the duration ParseRetryAfter gives for the 429 of invocation k, at its receipt
ParsedDelay(k) ==
    ParseRetryAfter(history[k].retryAfter, <<history[k].receivedAt>>,
                    history[k].receivedAt).d

\* the sleeps made after invocation k and before invocation k + 1
SleepsAfter(k) == SelectSeq(sleeps, LAMBDA sl : sl.after = k)

-----------------------------------------------------------------------------
\* C1: with every middleware delegating inward, a chain built from mw1..mwN around
\* T runs the request-side logic in the order mw1, ..., mwN, T and then the
\* response-side logic in the order mwN, ..., mw1, each layer exactly once; a
\* Client runs its middlewares in the order the WithMiddlewares options gave them.
C1_ChainOrder ==
    /\ (caller = "client" => chainArgs = Flatten(optionArgs))
    /\ (chainPc \in {"in", "out", "done"} /\ ~shorted) =>
         /\ ReqNames = Prefix(chainArgs \o Terminal, Len(ReqNames))
         /\ RespNames = Prefix(Reverse(chainArgs), Len(RespNames))
         /\ trace = SelectSeq(trace, IsReq) \o SelectSeq(trace, IsResp)
         /\ (chainPc = "in" => RespNames = <<>>)
         /\ (chainPc \in {"out", "done"} => ReqNames = chainArgs \o Terminal)
         /\ (chainPc = "done" => RespNames = Reverse(chainArgs))

\* a Client call with three middlewares, not all the same, has returned
C1_Witness ==
    /\ chainPc = "done"
    /\ ~shorted
    /\ caller = "client"
    /\ Len(optionArgs) = 2
    /\ chainArgs = <<"A", "B", "C">>
    /\ Len(trace) = 7

-----------------------------------------------------------------------------
\* C2: for attempts >= 1 a Retry call invokes next at most attempts times; when the
\* body was buffered, the context is never cancelled and every attempt ended in a
\* transport error or a retryable status, it has invoked next exactly attempts
\* times when it ends; with attempts = 1 next is invoked at most once.
C2_AttemptCount ==
    attempts >= 1 =>
      /\ Len(history) <= attempts
      /\ (/\ Ended
          /\ ~cancelled
          /\ ~callerBody.failing
          /\ \A k \in 1..Len(history) : RetryableOutcome(history[k]))
         => Len(history) = attempts

\* three attempts were allowed and all three were consumed, by a transport error,
\* a 429 with a parseable Retry-After and a 500
C2_Witness ==
    /\ Ended
    /\ ~cancelled
    /\ attempts = 3
    /\ Len(history) = 3
    /\ history[1].kind = "err"
    /\ Is429Parseable(history[2])
    /\ history[3].status = 500

\* C3 (src/gorest/middleware.go): when all attempts >= 1 attempts are consumed
\* without a final success the call returns a nil response and a non-nil error; the
\* error wraps the last attempt's transport error if it ended in one, and reports
\* the status code of the last attempt's response otherwise.
C3_ExhaustedError ==
    (variant = "gorest" /\ attempts >= 1 /\ Ended /\ i >= attempts) =>
      /\ Returned
      /\ Len(history) = attempts
      /\ result.resp = 0
      /\ result.err /= NoErr
      /\ IF history[Len(history)].kind = "err"
         THEN /\ result.err.kind = "all retry attempts failed"
              /\ result.err.cause = history[Len(history)].err.cause
         ELSE /\ result.err.kind = "all retry attempts exhausted"
              /\ result.err.code = history[Len(history)].status

\* exhaustion after a last transport error that differs from an earlier one
C3_Witness ==
    /\ variant = "gorest"
    /\ Returned
    /\ attempts = 2
    /\ i = 2
    /\ history[1].kind = "err"
    /\ history[1].err.cause = "E1"
    /\ history[2].kind = "err"
    /\ history[2].err.cause = "E2"

\* exhaustion after a last response: the error reports its status
C3_WitnessStatus ==
    /\ variant = "gorest"
    /\ Returned
    /\ attempts = 2
    /\ i = 2
    /\ history[1].kind = "err"
    /\ history[2].status = 503

\* C4: when next failed with a transport error on its first k invocations and then
\* returned a non-retryable response, the call made exactly k + 1 invocations,
\* returned that response with a nil error, and slept exactly k times, each time
\* for retryDelay.
C4_FailThenSucceed ==
    (/\ Len(history) >= 1
     /\ \A k \in 1..(Len(history) - 1) : history[k].kind = "err"
     /\ NonRetryableResponse(history[Len(history)]))
    => /\ Returned
       /\ Len(history) <= attempts
       /\ result = Pair(Len(history), NoErr)
       /\ Len(sleeps) = Len(history) - 1
       /\ \A k \in 1..Len(sleeps) : sleeps[k].d = retryDelay /\ sleeps[k].after = k

\* RetryMiddleware(3, d) against an executor that fails twice and then succeeds
C4_Witness ==
    /\ Returned
    /\ attempts = 3
    /\ Len(history) = 3
    /\ history[1].kind = "err"
    /\ history[2].kind = "err"
    /\ history[3].status = 200
    /\ Len(sleeps) = 2

\* C5 as stated: whatever the body, a call whose context is already cancelled
\* invokes next zero times, does not sleep and returns the cancellation error.
C5_AsStated ==
    (preCancelled /\ Ended) =>
      /\ Len(history) = 0
      /\ sleeps = <<>>
      /\ result = Pair(0, CtxCanceled)

\* C5, amended: a call whose context is already cancelled never invokes next and
\* never sleeps; with attempts >= 1 it returns the cancellation error when the body
\* is absent or was read without error, and the read error when reading it failed.
C5_PreCancelled ==
    preCancelled =>
      /\ Len(history) = 0
      /\ sleeps = <<>>
      /\ (attempts >= 1 /\ Ended) =>
           /\ Returned
           /\ result = IF callerBody.failing THEN Pair(0, ReadError)
                       ELSE Pair(0, CtxCanceled)

\* an already cancelled call with a readable body has returned the cancellation error
C5_Witness ==
    /\ preCancelled
    /\ Returned
    /\ attempts = 3
    /\ callerBody.present
    /\ bodyReads = 1
    /\ result = Pair(0, CtxCanceled)

\* an already cancelled call with an unreadable body has returned the read error
C5_WitnessReadError ==
    /\ preCancelled
    /\ Returned
    /\ attempts = 3
    /\ callerBody.failing
    /\ result = Pair(0, ReadError)

\* C6: a step taken at the top of an iteration (i < attempts) with the context
\* cancelled returns the raw cancellation error with a nil response, invokes next
\* no more and sleeps no more, whatever the earlier attempts ended in; nothing
\* happens after the call has ended.
C6_CancelAtAttemptStart ==
    [][/\ (pc = "loop" /\ i < attempts /\ cancelled) =>
            /\ pc' = "done"
            /\ result' = Pair(0, CtxCanceled)
            /\ history' = history
            /\ sleeps' = sleeps
       /\ ~Ended]_vars

\* a call cancelled after a 500 and a transport error has returned the
\* cancellation error although an attempt remained
C6_Witness ==
    /\ Returned
    /\ ~preCancelled
    /\ result = Pair(0, CtxCanceled)
    /\ attempts = 3
    /\ Len(history) = 2
    /\ history[1].status = 500
    /\ history[2].kind = "err"

\* C7: a body that can be read is read exactly once, up front, and every invocation
\* of next is handed a stream that yields all the original bytes, however much of
\* their streams the earlier invocations consumed.
C7_FreshBody ==
    (callerBody.present /\ ~callerBody.failing) =>
      /\ bodyReads = (IF pc = "start" THEN 0 ELSE 1)
      /\ (pc /= "start" => bodyBytes = Remaining(callerBody))
      /\ \A k \in 1..Len(history) :
           history[k].hadBody /\ history[k].given = Remaining(callerBody)

\* the third invocation after two that consumed the whole body
C7_Witness ==
    /\ Len(history) = 3
    /\ history[1].consumed = Len(BodyBytes)
    /\ history[2].consumed = Len(BodyBytes)
    /\ history[3].given = BodyBytes
    /\ bodyReads = 1

\* C8: when reading the body up front fails, the call returns the read error with a
\* nil response, without invoking next and without sleeping, whatever attempts is.
C8_ReadFailure ==
    (callerBody.failing /\ pc /= "start") =>
      /\ Returned
      /\ result = Pair(0, ReadError)
      /\ history = <<>>
      /\ sleeps = <<>>
      /\ bodyReads = 1

\* the read failed in a call that was allowed three attempts
C8_Witness ==
    /\ callerBody.failing
    /\ Returned
    /\ attempts = 3
    /\ ~preCancelled
    /\ result = Pair(0, ReadError)

\* C9: a 429 whose Retry-After parses is drained and closed, is followed by a sleep
\* of the parsed duration, consumes its attempt, and (src/gorest/middleware.go) is
\* never the response returned to the caller; the next invocation, if there is one,
\* is the next attempt.
C9_Retry429 ==
    \A k \in 1..Len(history) :
      Is429Parseable(history[k]) =>
        /\ history[k].drained
        /\ history[k].closed
        /\ history[k].attempt = k - 1
        /\ IF k = Len(history) /\ pc = "sleep"
           THEN /\ pendingSleep = ParsedDelay(k)
                /\ SleepsAfter(k) = <<>>
                /\ i = k - 1
           ELSE /\ Len(SleepsAfter(k)) >= 1
                /\ SleepsAfter(k)[1].d = ParsedDelay(k)
                /\ i >= k
        /\ (variant = "gorest" => result.resp /= k)
        /\ (k < Len(history) => history[k + 1].attempt = k)

\* a 429 carrying an HTTP-date three seconds ahead was followed by a sleep of three
\* seconds and by a second attempt, which succeeded
C9_Witness ==
    /\ Returned
    /\ Len(history) = 2
    /\ history[1].status = 429
    /\ history[1].retryAfter = <<"D", "3">>
    /\ Len(sleeps) = 2
    /\ sleeps[1].d = 3
    /\ history[2].status = 200
    /\ result = Pair(2, NoErr)

\* C10: a 429 whose Retry-After is absent or does not parse is returned to the
\* caller with a nil error on that attempt, its body neither drained nor closed,
\* and no sleep and no invocation follows it, even if attempts remain.
C10_Final429 ==
    \A k \in 1..Len(history) :
      Is429Final(history[k]) =>
        /\ k = Len(history)
        /\ Returned
        /\ result = Pair(k, NoErr)
        /\ ~history[k].drained
        /\ ~history[k].closed
        /\ SleepsAfter(k) = <<>>
        /\ i = k - 1

\* a 429 with an unparseable Retry-After was returned on the first of three attempts
C10_Witness ==
    /\ Returned
    /\ attempts = 3
    /\ Len(history) = 1
    /\ history[1].status = 429
    /\ history[1].retryAfter = <<"x">>
    /\ result = Pair(1, NoErr)

\* a 429 without a Retry-After was returned on the second of three attempts
C10_WitnessAbsent ==
    /\ Returned
    /\ attempts = 3
    /\ Len(history) = 2
    /\ history[2].status = 429
    /\ history[2].retryAfter = <<>>
    /\ result = Pair(2, NoErr)


\* C11: a response with status >= 500 consumes its attempt and is not returned
\* (src/gorest/middleware.go): a sleep of retryDelay follows it and the next
\* invocation, if any, is the next attempt; and every response that next returned
\* and that is not the one returned to the caller has its body, if it has one,
\* drained and closed, in every state from the return of next on.
C11_DiscardedClosed ==
    \A k \in 1..Len(history) :
      /\ (history[k].kind = "resp" /\ history[k].status >= 500) =>
           /\ history[k].attempt = k - 1
           /\ IF k = Len(history) /\ pc = "sleep"
              THEN pendingSleep = retryDelay /\ i = k - 1
              ELSE /\ Len(SleepsAfter(k)) >= 1
                   /\ SleepsAfter(k)[1].d = retryDelay
                   /\ i >= k
           /\ (variant = "gorest" => result.resp /= k)
           /\ (k < Len(history) => history[k + 1].attempt = k)
      /\ (history[k].kind = "resp" /\ history[k].hasBody /\ result.resp /= k) =>
           history[k].drained /\ history[k].closed

\* a 500 and a 429 with a parseable Retry-After were discarded, both closed, before
\* the third attempt returned a 200 whose body is left open
C11_Witness ==
    /\ Returned
    /\ Len(history) = 3
    /\ history[1].status = 500
    /\ history[1].closed
    /\ Is429Parseable(history[2])
    /\ history[2].closed
    /\ history[3].status = 200
    /\ ~history[3].closed
    /\ result = Pair(3, NoErr)

\* C12: a response whose status is below 500 and is not 429 is returned to the
\* caller with a nil error on that attempt, its body neither drained nor closed,
\* and no invocation and no sleep follows it.
C12_FinalStatus ==
    \A k \in 1..Len(history) :
      (history[k].kind = "resp" /\ history[k].status < 500 /\ history[k].status /= 429) =>
        /\ k = Len(history)
        /\ Returned
        /\ result = Pair(k, NoErr)
        /\ ~history[k].drained
        /\ ~history[k].closed
        /\ SleepsAfter(k) = <<>>
        /\ i = k - 1

\* a 404 was returned on the second of three attempts
C12_Witness ==
    /\ Returned
    /\ attempts = 3
    /\ Len(history) = 2
    /\ history[1].status = 503
    /\ history[2].status = 404
    /\ result = Pair(2, NoErr)


\* exactly one of Response and Error is non-nil
ExactlyOne(a) == (~a.Response.nil) /= (a.Error /= NoErr)

\* the caller's receive on channel c that took the value the goroutine sent
TookValue(c) == \E r \in 1..Len(recvd[c]) : recvd[c][r].ok

\* C13, as stated: every dispatch, DoAsync and DoStreamAsync alike, sends exactly one
\* AsyncResponse and then closes its channel, so that once its goroutine has ended the
\* channel is closed and a receive after the first does not block.
C13_AsStated ==
    \A c \in 1..Len(chans) :
      tasks[c] = "exit" =>
        /\ chans[c].sent = 1
        /\ chans[c].closed
        /\ (Len(recvd[c]) >= 1 => CanRecv(chans[c]))

\* C14: once JoinAsyncResponses (called by the caller or by DoGroupAsync) has emitted
\* its list, entry c of the list is what the goroutine of dispatch c sent, whatever the
\* order in which the dispatches completed (the zero AsyncResponse when the caller had
\* itself taken the value from channel c).
C14_InputOrder ==
    join.out /= <<>> =>
      /\ Len(join.out[1]) = Len(calls)
      /\ \A c \in 1..Len(calls) :
           join.out[1][c] = IF TookValue(c) THEN ZeroAsync ELSE AsyncOf(autoBuffer, calls[c])

\* DoGroupAsync over three requests of which the second completed first and failed,
\* and the first completed last
C14_Witness ==
    /\ mode = "group"
    /\ Len(calls) = 3
    /\ finished = <<2, 3, 1>>
    /\ calls[2].kind = "transporterr"
    /\ calls[1].kind = "ok"
    /\ join.out /= <<>>
    /\ join.out[1][1].Response.id = 1
    /\ join.out[1][2].Error = TransportError(2)

\* C15, as stated: every AsyncResponse that a dispatch sent or that JoinAsyncResponses
\* emitted has exactly one of Response and Error non-nil.
C15_AsStated ==
    /\ \A c \in 1..Len(chans) :
         /\ \A b \in 1..Len(chans[c].buf) : ExactlyOne(chans[c].buf[b])
         /\ \A r \in 1..Len(recvd[c]) : recvd[c][r].ok => ExactlyOne(recvd[c][r].val)
    /\ join.out /= <<>> => \A c \in 1..Len(join.out[1]) : ExactlyOne(join.out[1][c])


\* a record with the given marker was written to the sink
Logged(marker) == \E w \in 1..Len(sink) : sink[w].marker = marker

\* reading or dumping the request fails
RequestDiagFails ==
    \/ logReq.dumpFails
    \/ /\ logReq.body.present
       /\ logReq.body.failing
       /\ (logCfg.variant = "gorest" \/ logCfg.dumpRequestBody)

\* reading or dumping the response that next returned fails
ResponseDiagFails ==
    /\ logInner.out.kind = "resp"
    /\ \/ logInner.out.dumpFails
       \/ /\ logInner.out.body.present
          /\ logInner.out.body.failing
          /\ (logCfg.variant = "gorest" \/ logCfg.dumpResponseBody)

\* C16: Logging invokes next exactly once per call, also when reading or dumping the
\* request fails; it returns the error of next unchanged, with the response of next;
\* it returns a nil error whenever next returned a nil error, also when reading or
\* dumping the response fails; and each such failure is written to the sink as a
\* Request Dump Error or Response Dump Error record.
C16_OutcomeUnchanged ==
    /\ logInner.calls <= 1
    /\ logPc \in {"returned", "done"} => logInner.calls = 1
    /\ logPc \in {"call", "returned", "done"} =>
         (RequestDiagFails <=> Logged("Request Dump Error"))
    /\ logPc = "done" =>
         /\ logResult.returned
         /\ logInner.out.kind = "err" =>
              /\ logResult.err = logInner.out.err
              /\ logResult.resp = NilHttpResponse
              /\ Logged("Request Error")
         /\ logInner.out.kind = "resp" =>
              /\ logResult.err = NoErr
              /\ ~logResult.resp.nil
              /\ ~Logged("Request Error")
              /\ (ResponseDiagFails <=> Logged("Response Dump Error"))

\* the request body and the response body both failed to read, next was invoked once
\* and the call returned its response with a nil error
C16_Witness ==
    /\ logPc = "done"
    /\ logReq.body = FailingReader
    /\ logInner.calls = 1
    /\ logInner.out.kind = "resp"
    /\ logInner.out.body = FailingReader
    /\ logResult.err = NoErr
    /\ Logged("Request Dump Error")
    /\ Logged("Response Dump Error")

\* C17, as stated: the request body bytes that next is given are those the caller
\* supplied, and the status, headers and body bytes of the response the caller gets
\* are those of the response next returned.
C17_AsStated ==
    /\ logInner.calls = 1 =>
         ReadAll(logInner.given).data = ReadAll(logReq.body).data
    /\ (logPc = "done" /\ logInner.out.kind = "resp") =>
         /\ logResult.resp.status = logInner.out.status
         /\ logResult.resp.header = logInner.out.header
         /\ ReadAll(logResult.resp.body).data = ReadAll(logInner.out.body).data


\* the header is a non-negative integer string: one or more decimal digits
IsNonNegativeInteger(h) == h /= <<>> /\ AllDigits(h)

\* the header is the text of an HTTP-date
IsHttpDate(h) == Len(h) >= 2 /\ h[1] = "D" /\ AllDigits(Tail(h))

\* the reference time of the call
ParseNow == IF parseArgs.baseline /= <<>> THEN parseArgs.baseline[1] ELSE parseArgs.wall

\* C18, as stated: ParseRetryAfter accepts a non-negative integer string n, giving n
\* seconds, and an HTTP-date; every other string fails with an error that holds
\* "invalid Retry-After header" and the value; a duration returned without error is
\* never negative.
C18_AsStated ==
    parseResult.called =>
      /\ IsNonNegativeInteger(parseArgs.header) =>
           (parseResult.ok /\ parseResult.d = DecVal(parseArgs.header))
      /\ IsHttpDate(parseArgs.header) => parseResult.ok
      /\ (~IsNonNegativeInteger(parseArgs.header) /\ ~IsHttpDate(parseArgs.header)) =>
           /\ ~parseResult.ok
           /\ parseResult.err.kind = "invalid Retry-After header"
           /\ parseResult.err.value = parseArgs.header
      /\ parseResult.ok => parseResult.d >= 0

\* C19: for an HTTP-date with deadline t and reference time now (the baseline when one
\* is given, else the wall clock), ParseRetryAfter returns t - now with no error when
\* t >= now and 0 with no error when t < now.
C19_HttpDate ==
    (parseResult.called /\ IsHttpDate(parseArgs.header)) =>
      LET t == DecVal(Tail(parseArgs.header))
      IN  /\ parseResult.ok
          /\ parseResult.err = NoErr
          /\ parseResult.d = IF t >= ParseNow THEN t - ParseNow ELSE 0

\* a deadline before the baseline, with a wall clock before the deadline: 0, no error
C19_Witness ==
    /\ parseResult.called
    /\ parseArgs.header = <<"D", "2", "2">>
    /\ parseArgs.baseline = <<30>>
    /\ parseArgs.wall = 1
    /\ parseResult.ok
    /\ parseResult.d = 0

\* a deadline after the baseline: the difference
C19_WitnessFuture ==
    /\ parseResult.called
    /\ parseArgs.header = <<"D", "2", "5">>
    /\ parseArgs.baseline = <<4>>
    /\ parseResult.d = 21


\* C20, as stated: on every Response, the one of the buffered Do path included, a call
\* of Bytes() made after an earlier call of Bytes() fails with an error.
C20_AsStated ==
    \A j \in 1..Len(respCalls) :
      (respCalls[j].op = "Bytes" /\ \E k \in 1..(j - 1) : respCalls[k].op = "Bytes") =>
        respCalls[j].err /= NoErr


\* the durations of the sleeps made after invocation k and before invocation k + 1
DelaysAfter(k) == [s \in 1..Len(SleepsAfter(k)) |-> SleepsAfter(k)[s].d]

\* C30: between two consecutive attempts of one Retry call, the sleeps are: one of
\* retryDelay after a transport error; two of retryDelay after a status >= 500; one of
\* the parsed Retry-After and then one of retryDelay after a 429 whose Retry-After
\* parses; and no sleep precedes the first attempt.
C30_Backoff ==
    /\ \A s \in 1..Len(sleeps) : sleeps[s].after >= 1
    /\ \A k \in 1..(Len(history) - 1) :
         /\ history[k].kind = "err" => DelaysAfter(k) = <<retryDelay>>
         /\ (history[k].kind = "resp" /\ history[k].status >= 500) =>
              DelaysAfter(k) = <<retryDelay, retryDelay>>
         /\ Is429Parseable(history[k]) =>
              DelaysAfter(k) = <<ParsedDelay(k), retryDelay>>

\* a transport error, then a 429 with Retry-After "2", then a third attempt, with a
\* retryDelay of 1: sleeps of 1, 2 and 1
C30_Witness ==
    /\ retryDelay = 1
    /\ Len(history) = 3
    /\ history[1].kind = "err"
    /\ history[2].status = 429
    /\ history[2].retryAfter = <<"2">>
    /\ [s \in 1..Len(sleeps) |-> sleeps[s].d] = <<1, 2, 1>>

\* a 500 and then a second attempt: two sleeps of retryDelay between them
C30_WitnessServerError ==
    /\ Len(history) = 2
    /\ history[1].status = 500
    /\ DelaysAfter(1) = <<retryDelay, retryDelay>>


\* C29: every attempt of a Retry call is made on its own clone of the request: the
\* Header the caller passed is never changed by what next does to the Header of an
\* attempt, and the Header every attempt is given equals the caller's, in a map of its
\* own that no other attempt is given.
C29_CloneIsolation ==
    /\ headerHeap /= <<>> => headerHeap[1] = OrigHeader
    /\ \A k \in 1..Len(history) :
         /\ history[k].header = OrigHeader
         /\ history[k].headerRef /= 1
         /\ \A j \in 1..Len(history) : j /= k => history[j].headerRef /= history[k].headerRef

\* three attempts were made; next added a value to the Header of the first two, and
\* the third was given the caller's Header
C29_Witness ==
    /\ Len(history) = 3
    /\ headerHeap[history[1].headerRef]["X-Seen"] = <<"1">>
    /\ headerHeap[history[2].headerRef]["X-Seen"] = <<"2">>
    /\ history[3].header = OrigHeader
    /\ headerHeap[1] = OrigHeader


-----------------------------------------------------------------------------

\* the method calls made on the Response so far whose operation is in ops
CallsOf(ops) == {k \in 1..Len(respCalls) : respCalls[k].op \in ops}

\* the bytes the body of call c still held when the call was made
Unread(c) == SubSeq(c.before.data, c.before.pos + 1, Len(c.before.data))

\* the error that reading the body of call c to its end gives
DrainError(c) ==
    IF c.before.closed /\ ~c.before.nop THEN ClosedBodyError
    ELSE IF c.before.failing THEN ReadError ELSE NoErr

\* the error of call c that precedes the close of its body: of the read, the decoding,
\* the creation of the file, the write to it or its close
EarlierError(c) ==
    CASE c.op = "Bytes" -> DrainError(c)
      [] c.op = "JSON" ->
           IF DrainError(c) /= NoErr THEN DrainError(c)
           ELSE IF Unread(c) = <<>> THEN EOFError
           ELSE IF c.args.decodeFails THEN DecodeError ELSE NoErr
      [] c.op = "SaveToFile" ->
           IF c.args.fault = "create" THEN CreateError
           ELSE IF c.args.fault = "write" /\ DrainError(c) /= ClosedBodyError
                   /\ Unread(c) /= <<>> THEN WriteError
           ELSE IF DrainError(c) /= NoErr THEN DrainError(c)
           ELSE IF c.args.fault = "fclose" THEN FileCloseError ELSE NoErr
      [] OTHER -> NoErr

\* the error that the close of the body of call c gives
CloseErrorOf(c) == IF c.before.closeFails /\ ~c.before.nop THEN CloseError ELSE NoErr

\* C21: JSON, Bytes and SaveToFile each close the body exactly once on every return
\* path, and return the error of that close only when no earlier error occurred;
\* otherwise the earlier error is the one returned
C21_ClosedOnce ==
    \A k \in CallsOf({"JSON", "Bytes", "SaveToFile"}) :
        LET c == respCalls[k]
        IN  /\ c.closes = 1
            /\ c.err = IF EarlierError(c) /= NoErr THEN EarlierError(c)
                       ELSE CloseErrorOf(c)

\* SaveToFile failed to create its file and closed the body, and another of the three
\* calls returned the close error of the body
C21_Witness ==
    /\ \E k \in CallsOf({"SaveToFile"}) :
         /\ respCalls[k].args.fault = "create"
         /\ respCalls[k].err = CreateError
         /\ respCalls[k].closes = 1
    /\ \E k \in CallsOf({"JSON", "Bytes", "SaveToFile"}) :
         /\ respCalls[k].err = CloseError
         /\ respCalls[k].closes = 1


-----------------------------------------------------------------------------

\* the size of the buffer that the arguments of StreamChunks call c ask for
AskedBufSize(c) ==
    IF c.args.bufSizes /= <<>> /\ c.args.bufSizes[1] >= 1 THEN c.args.bufSizes[1] ELSE 4096

\* call c is a StreamChunks with at most one buffer size, on a body that reads to its
\* end without an error
StreamsToEnd(c) ==
    /\ c.op = "StreamChunks"
    /\ Len(c.args.bufSizes) <= 1
    /\ DrainError(c) = NoErr

\* C22: StreamChunks gives its callback only non-empty chunks of at most the buffer
\* size, in the order read; together they are exactly the bytes of the body, however
\* the reads split them; and it returns nil at the end of the stream
C22_ChunksRebuildBody ==
    \A k \in CallsOf({"StreamChunks"}) :
        LET c == respCalls[k]
        IN  StreamsToEnd(c) =>
              /\ \A j \in 1..Len(c.chunks) :
                    Len(c.chunks[j]) >= 1 /\ Len(c.chunks[j]) <= AskedBufSize(c)
              /\ Flatten(c.chunks) = Unread(c)
              /\ c.err = NoErr

\* a whole body was streamed with a buffer of one byte, and the read that gave the
\* last byte also gave the end of the stream
C22_Witness ==
    \E k \in CallsOf({"StreamChunks"}) :
        LET c == respCalls[k]
        IN  /\ StreamsToEnd(c)
            /\ c.before.pos = 0
            /\ c.args.bufSizes = <<1>>
            /\ c.chunks = <<<<BodyBytes[1]>>, <<BodyBytes[2]>>>>
            /\ c.reads = 2


-----------------------------------------------------------------------------

\* C23: StreamChunks never closes the body, whether it ends at the end of the stream,
\* with a read error or with a usage error; given more than one buffer size it returns
\* a usage error, reads no byte of the body and never invokes the callback
C23_NoCloseAndUsage ==
    \A k \in CallsOf({"StreamChunks"}) :
        LET c == respCalls[k]
        IN  /\ c.closes = 0
            /\ c.after.closed = c.before.closed
            /\ Len(c.args.bufSizes) > 1 =>
                 /\ c.err.kind = "only one optional buffer size value is allowed"
                 /\ c.reads = 0
                 /\ c.after.pos = c.before.pos
                 /\ c.chunks = <<>>

\* StreamChunks was given two buffer sizes while the body held unread bytes, and
\* another StreamChunks on the same open body ended with a read error
C23_Witness ==
    /\ \E k \in CallsOf({"StreamChunks"}) :
         /\ Len(respCalls[k].args.bufSizes) > 1
         /\ Unread(respCalls[k]) /= <<>>
         /\ ~respCalls[k].before.closed
    /\ \E k \in CallsOf({"StreamChunks"}) :
         /\ respCalls[k].err = ReadError
         /\ respCalls[k].chunks /= <<>>
         /\ ~respCalls[k].after.closed


-----------------------------------------------------------------------------

\* Do was called with auto-buffering and returned without an error
BufferedDone ==
    respHandle.made /\ ~respCfg.stream /\ respCfg.autoBuffer /\ respCfg.kind = "ok"

\* Do without auto-buffering, or DoStream, was called and the transport gave a response
RawDone ==
    /\ respHandle.made
    /\ respCfg.stream \/ ~respCfg.autoBuffer
    /\ respCfg.kind \in {"ok", "readfail", "closefail"}

\* C24: with auto-buffering a successful Do returns the status and the headers of the
\* transport's response and an in-memory body holding all the bytes of the original
\* body, which is closed when Do returns; without auto-buffering Do, like DoStream,
\* returns the transport's response with its body unread and unclosed
C24_BufferedOrRaw ==
    /\ BufferedDone =>
         /\ respHandle.Error = NoErr
         /\ ~respHandle.atReturn.nil
         /\ respHandle.atReturn.status = 200
         /\ respHandle.atReturn.header = <<"X-Request-Id", 1>>
         /\ respHandle.atReturn.body.nop
         /\ respHandle.atReturn.body.data = BodyBytes
         /\ respHandle.atReturn.body.pos = 0
         /\ respHandle.transport.closed
         /\ respHandle.transport.closes = 1
    /\ RawDone =>
         /\ respHandle.Error = NoErr
         /\ ~respHandle.atReturn.nil
         /\ respHandle.atReturn.status = 200
         /\ respHandle.atReturn.header = <<"X-Request-Id", 1>>
         /\ respHandle.atReturn.body = respHandle.transport
         /\ ~respHandle.transport.nop
         /\ respHandle.transport.data = BodyBytes
         /\ respHandle.transport.pos = 0
         /\ ~respHandle.transport.closed
         /\ respHandle.transport.closes = 0

\* a buffered Do returned, and the bytes of its in-memory body were then read
C24_Witness ==
    /\ BufferedDone
    /\ respHandle.transport.closed
    /\ \E k \in CallsOf({"Bytes"}) : respCalls[k].data = BodyBytes

\* Do without auto-buffering returned the open body of the transport
C24_WitnessRaw ==
    /\ RawDone
    /\ ~respCfg.stream
    /\ ~respHandle.transport.closed


-----------------------------------------------------------------------------

\* the error for which the Request cannot be built: the recorded construction error,
\* the empty URL or the URL that does not parse; NoErr when it can be built
BuildFailure ==
    IF request.buildErr /= NoErr THEN request.buildErr
    ELSE IF request.url = <<>> THEN EmptyURLError
    ELSE IF request.url = <<":", "b">> THEN InvalidURLError
    ELSE NoErr

\* C25: when the wire request cannot be built, Do, DoStream, DoAsync and DoStreamAsync
\* give that error with a nil response, and http.Client.Do, which runs the chain and
\* the transport, is never called
C25_BuildFailsFast ==
    BuildFailure /= NoErr =>
        /\ wire = <<>>
        /\ dispatch.pc = "returned" =>
             /\ dispatch.out.Response.nil
             /\ dispatch.out.Error = BuildFailure

\* DoAsync delivered the error of a URL that does not parse, for a transport that
\* would have answered
C25_Witness ==
    /\ dispatch.pc = "returned"
    /\ dispatch.api = "DoAsync"
    /\ dispatch.kind = "ok"
    /\ request.url = <<":", "b">>
    /\ dispatch.out.Error = InvalidURLError
    /\ dispatch.out.Response.nil
    /\ wire = <<>>

-----------------------------------------------------------------------------

\* the key of m that is k up to the case of its letters, when m has one
SameKeys(m, k) == {j \in DOMAIN m : CanonicalMIMEHeaderKey(j) = CanonicalMIMEHeaderKey(k)}

\* no two keys of m differ only in the case of their letters
CaseDistinct(m) == \A k \in DOMAIN m : SameKeys(m, k) = {k}

\* H2 united with the entries of H1 whose keys are not in H2, keys taken up to the
\* case of their letters, as a wire header
Effective(H1, H2) ==
    [c \in {CanonicalMIMEHeaderKey(k) : k \in DOMAIN H1 \cup DOMAIN H2} |->
        IF \E k \in DOMAIN H2 : CanonicalMIMEHeaderKey(k) = c
        THEN H2[CHOOSE k \in DOMAIN H2 : CanonicalMIMEHeaderKey(k) = c]
        ELSE H1[CHOOSE k \in DOMAIN H1 : CanonicalMIMEHeaderKey(k) = c]]

\* the Request was written H1 and then H2, and was built and sent
WrittenTwice ==
    /\ Len(applied) = 2
    /\ CaseDistinct(applied[1])
    /\ CaseDistinct(applied[2])
    /\ wire /= <<>>

\* C26, as stated: the wire request built after writing H1 and then H2 carries H2
\* united with the entries of H1 whose keys are not in H2, keys that differ only in
\* the case of their letters included
C26_AsStated ==
    WrittenTwice => wire[1].header = Effective(applied[1], applied[2])

\* the same for H1 and H2 that together hold no two keys differing only in case
C26_SameCase ==
    (WrittenTwice /\ CaseDistinct(applied[2] @@ applied[1])) =>
        wire[1].header = Effective(applied[1], applied[2])


-----------------------------------------------------------------------------

\* the entries of caller c's log made by layer who on the way down (side "req") or on
\* the way back (side "resp")
Seen(c, who, side) ==
    SelectSeq(stackCalls[c].log, LAMBDA e : e.who = who /\ e.side = side)

\* the position of middleware m in the argument list of ChainMiddlewares
ListedAt(m) == CHOOSE k \in 1..Len(stackCfg.chain) : stackCfg.chain[k] = m

\* the decorators listed before Retry, and after it
Outside == {d \in {"D1", "D2"} : \E k \in 1..Len(stackCfg.chain) :
                stackCfg.chain[k] = d /\ k < ListedAt("Retry")}
Inside == {d \in {"D1", "D2"} : \E k \in 1..Len(stackCfg.chain) :
                stackCfg.chain[k] = d /\ k > ListedAt("Retry")}

\* the outcome is a transport error or a response that Retry retries
Retryable(out) == out.err /= NoErr \/ (~out.resp.nil /\ out.resp.status >= 500)

\* an attempt of caller c got a response that Retry returns
Succeeded(c) ==
    \E k \in 1..Len(Seen(c, "T", "resp")) : ~Retryable(Seen(c, "T", "resp")[k].out)

\* C27: per call, a decorator listed before Retry makes one inner call and sees one
\* outcome, the one the caller gets, and none of the errors and retried responses of
\* the earlier attempts when a later attempt succeeds; a decorator listed after Retry
\* and the terminal are invoked once per attempt
C27_RetryHidesAttempts ==
    \A c \in Callers :
        /\ \A d \in Outside :
             /\ Len(Seen(c, d, "req")) = IF stackCalls[c].pc = "start" THEN 0 ELSE 1
             /\ Len(Seen(c, d, "resp")) = IF stackCalls[c].pc = "done" THEN 1 ELSE 0
             /\ stackCalls[c].pc = "done" =>
                  /\ Seen(c, d, "resp")[1].out = stackCalls[c].result
                  /\ Succeeded(c) => ~Retryable(Seen(c, d, "resp")[1].out)
        /\ \A d \in Inside \cup {"T"} :
             /\ Len(Seen(c, d, "req")) = Len(Seen(c, "T", "req"))
             /\ Len(Seen(c, d, "resp")) = Len(Seen(c, "T", "req"))
             /\ \A k \in 1..Len(Seen(c, d, "req")) : Seen(c, d, "req")[k].attempt = k - 1
        /\ Len(Seen(c, "T", "req")) <= stackCfg.attempts

\* a call through D1, Retry, D2 ended with the response of its third attempt, after a
\* transport error and a 500: D1 was called once and D2 three times
C27_Witness ==
    /\ stackCfg.chain = <<"D1", "Retry", "D2">>
    /\ stackCalls[1].pc = "done"
    /\ Len(Seen(1, "T", "resp")) = 3
    /\ Seen(1, "T", "resp")[1].out.err /= NoErr
    /\ Seen(1, "T", "resp")[2].out.resp.status = 500
    /\ Seen(1, "T", "resp")[3].out.resp.status = 200
    /\ Len(Seen(1, "D1", "req")) = 1
    /\ Seen(1, "D1", "resp")[1].out.resp.status = 200
    /\ Len(Seen(1, "D2", "req")) = 3

-----------------------------------------------------------------------------

\* C28: two calls running through the same Retry at once share no attempt state: the
\* attempts of each are counted from its own first one up to the maximum, each of
\* them carries the body of its own call, and the call ends with its own last error
\* or response
C28_NoSharedAttemptState ==
    \A c \in Callers :
        LET given == Seen(c, "T", "req")
            got == Seen(c, "T", "resp")
        IN  /\ \A k \in 1..Len(given) :
                 /\ given[k].attempt = k - 1
                 /\ given[k].body = <<c>>
            /\ Len(given) <= stackCfg.attempts
            /\ stackCalls[c].pc = "done" =>
                 /\ Len(given) = stackCfg.attempts \/ ~Retryable(got[Len(got)].out)
                 /\ \A k \in 1..(Len(got) - 1) : Retryable(got[k].out)
                 /\ stackCalls[c].result.resp.nil \/ stackCalls[c].result.resp.for = c
                 /\ ~Retryable(got[Len(got)].out) => stackCalls[c].result = got[Len(got)].out
                 /\ (Retryable(got[Len(got)].out) /\ stackCfg.variant = "unnamed") =>
                        stackCalls[c].result = got[Len(got)].out

\* caller 2 used up its three attempts and ended while caller 1 was between its
\* second attempt and its third
C28_Witness ==
    /\ stackCfg.attempts = 3
    /\ stackCalls[1].pc = "loop"
    /\ Len(Seen(1, "T", "req")) = 2
    /\ stackCalls[2].pc = "done"
    /\ Len(Seen(2, "T", "req")) = 3
    /\ Retryable(stackCalls[2].result) \/ stackCalls[2].result.err /= NoErr


-----------------------------------------------------------------------------

\* the call ended because the cancellation check of an iteration saw the context
\* cancelled
CancellationObserved == Ended /\ result = Pair(0, CtxCanceled)

\* C31, as stated: every sleep of a Retry call that ended without observing a
\* cancellation was followed by a further invocation of next; after the last attempt
\* ends in a retryable outcome the call returns without a sleep.
C31_AsStated ==
    (Ended /\ ~CancellationObserved) =>
        \A s \in 1..Len(sleeps) : sleeps[s].after < Len(history)


-----------------------------------------------------------------------------

\* C32, as stated: with attempts <= 0 next is never invoked and the Retry call returns
\* a nil response and a non-nil error, without faulting.
C32_AsStated ==
    (attempts <= 0 /\ Ended) =>
        /\ history = <<>>
        /\ pc = "done"
        /\ result.resp = 0
        /\ result.err /= NoErr


-----------------------------------------------------------------------------

\* C33: a cancellation that comes after the check of an iteration is not observed in
\* it: the sleep before the attempt is followed by the invocation of next, next is
\* invoked, and a response that is not retried is returned as the result, without an
\* error
C33_CancelAfterCheck ==
    [][(cancelled /\ pc \in {"backoff", "call"}) =>
          /\ pc = "backoff" => pc' = "call"
          /\ pc = "call" =>
               /\ Len(history') = Len(history) + 1
               /\ NonRetryableResponse(history'[Len(history')]) =>
                    /\ pc' = "done"
                    /\ result' = Pair(Len(history'), NoErr)]_vars

\* the context was cancelled during the call, after the check of the second
\* iteration, and the call returned the 200 of its second attempt
C33_Witness ==
    /\ cancelled
    /\ ~preCancelled
    /\ Returned
    /\ Len(history) = 2
    /\ Len(sleeps) >= 1
    /\ history[2].status = 200
    /\ result = Pair(2, NoErr)


-----------------------------------------------------------------------------

\* the markers of the records in the sink, in the order written
Markers == [k \in 1..Len(sink) |-> sink[k].marker]

\* the number of records in the sink with the marker
Count(marker) == Cardinality({k \in 1..Len(sink) : sink[k].marker = marker})

\* the records written after next returned
ResponseSide == {"Request Error", "Response", "Response Dump Error"}

\* C34: in src/gorest/middleware.go the Request record is in the sink before next is
\* invoked; no record of the response side is written before next has returned; and
\* between the return of next and the return of Logging exactly one of the Request
\* Error record, if and only if next returned an error, and the Response record is
\* written
C34_RecordOrder ==
    logCfg.variant = "gorest" =>
        /\ logPc = "start" => (sink = <<>> /\ logInner.calls = 0)
        /\ logPc \in {"call", "returned", "done"} =>
             /\ Count("Request") = 1
             /\ \A k \in 1..Len(sink) :
                  sink[k].marker \in ResponseSide =>
                      \E j \in 1..(k - 1) : sink[j].marker = "Request"
        /\ logPc \in {"start", "call", "returned"} =>
             \A k \in 1..Len(sink) : sink[k].marker \notin ResponseSide
        /\ logPc = "done" =>
             /\ Count("Request Error") + Count("Response") = 1
             /\ Count("Request Error") = 1 <=> logInner.out.kind = "err"

\* the dump of the request failed, next returned an error, and the sink holds the dump
\* error, the Request record and the Request Error record, in that order
C34_Witness ==
    /\ logCfg.variant = "gorest"
    /\ logPc = "done"
    /\ logReq.dumpFails
    /\ logInner.out.kind = "err"
    /\ Markers = <<"Request Dump Error", "Request", "Request Error">>


-----------------------------------------------------------------------------

\* the records that carry what the request, the response or the error of next hold
ContentMarkers == {"Request", "Response", "Request Error"}

\* C35, as stated: every Request, Response and Request Error record is the output of
\* the configured redactor applied to the whole record, no other record holds a dump
\* or body bytes, and with a nil config or a nil Redactor the redactor is the
\* identity and both bodies are dumped.
C35_AsStated ==
    /\ \A k \in 1..Len(sink) :
         IF sink[k].marker \in ContentMarkers
         THEN /\ sink[k].redact = "whole"
              /\ sink[k].by = IF logCfg.given.nil \/ logCfg.given.Redactor = "nil"
                              THEN "identity" ELSE "configured"
         ELSE ~sink[k].dump /\ sink[k].body = <<>>
    /\ (logCfg.given.nil \/ logCfg.given.Redactor = "nil") =>
         /\ logCfg.redactor = "identity"
         /\ logCfg.dumpRequestBody
         /\ logCfg.dumpResponseBody

\* the same for src/gorest/middleware.go, with the bodies dumped as the config says
\* when only its Redactor is nil
C35_Gorest ==
    logCfg.variant = "gorest" =>
      /\ \A k \in 1..Len(sink) :
           IF sink[k].marker \in ContentMarkers
           THEN /\ sink[k].redact = "whole"
                /\ sink[k].by = IF logCfg.given.nil \/ logCfg.given.Redactor = "nil"
                                THEN "identity" ELSE "configured"
           ELSE ~sink[k].dump /\ sink[k].body = <<>>
      /\ logCfg.given.nil =>
           (logCfg.redactor = "identity" /\ logCfg.dumpRequestBody /\ logCfg.dumpResponseBody)


\* a Request Error record of src/unnamed/part_001 that did not pass through the redactor
C35_UnredactedError ==
    /\ logCfg.variant = "unnamed"
    /\ logCfg.given.Redactor = "configured"
    /\ \E k \in 1..Len(sink) : sink[k].marker = "Request Error" /\ sink[k].by = "none"


-----------------------------------------------------------------------------

\* every producer of the group has sent its result, closed its channel and exited
ProducersDone == \A c \in 1..Len(tasks) : tasks[c] = "exit"

\* the group channel holds the list
ListEmitted == join.out /= <<>>

\* C36: when every call of DoGroupAsync returns, every producer terminates, whether
\* or not anything receives from its channel or from the group channel; when the
\* goroutine of JoinAsyncResponses is scheduled too, the group channel eventually
\* holds the list; and the list is emitted only after every call has returned, so a
\* call that never returns keeps it from being emitted.
C36_GroupTerminates ==
    /\ [](mode = "group" => <>ProducersDone)
    /\ (WF_vars(JoinRecv) /\ WF_vars(JoinEmit)) => [](mode = "group" => <>ListEmitted)
    /\ [](ListEmitted => \A c \in 1..Len(tasks) : tasks[c] /= "run")

\* three calls completed in the reverse of their dispatch order, every producer
\* exited, the list emitted
C36_Witness ==
    /\ mode = "group"
    /\ join.n = MaxReqs
    /\ finished = [c \in 1..MaxReqs |-> MaxReqs + 1 - c]
    /\ ProducersDone
    /\ ListEmitted

\* producers exited with their results never received: the joiner has not started
C36_NeverReceived ==
    /\ mode = "group"
    /\ join.n = MaxReqs
    /\ join.k = 1
    /\ ProducersDone
    /\ \A c \in 1..Len(chans) : Len(chans[c].buf) = 1


-----------------------------------------------------------------------------

\* the number of values the goroutine of JoinAsyncResponses has taken from channel c:
\* the values sent on it that are neither in its buffer nor with the caller
JoinerTook(c) ==
    chans[c].sent - Len(chans[c].buf)
      - Cardinality({r \in 1..Len(recvd[c]) : recvd[c][r].ok})

\* C37: JoinAsyncResponses over N channels emits one list and no more, of length N,
\* and when it has emitted it every input channel has given it a value or is closed;
\* it takes at most one value from each input channel, none before it is called and
\* none from a channel its loop has not reached; with N = 0 the list is empty.
C37_JoinOnce ==
    /\ Len(join.out) <= 1
    /\ (join.pc = "exit") = (join.out /= <<>>)
    /\ \A c \in 1..Len(chans) :
         /\ JoinerTook(c) \in {0, 1}
         /\ (join.pc = "none" \/ c >= join.k) => JoinerTook(c) = 0
    /\ join.out /= <<>> =>
         /\ join.n = Len(chans)
         /\ Len(join.out[1]) = join.n
         /\ \A c \in 1..join.n : JoinerTook(c) = 1 \/ chans[c].closed
         /\ join.n = 0 => join.out[1] = <<>>

\* a list of two emitted by JoinAsyncResponses over a DoAsync channel, closed and
\* emptied by the caller, and a DoStreamAsync channel, which gave its value
C37_Witness ==
    /\ mode = "single"
    /\ Len(calls) = 2
    /\ calls[1].api = "DoAsync"
    /\ calls[2].api = "DoStreamAsync"
    /\ TookValue(1)
    /\ join.out /= <<>>
    /\ Len(join.out[1]) = 2
    /\ JoinerTook(1) = 0
    /\ JoinerTook(2) = 1

\* JoinAsyncResponses over no channel at all
C37_WitnessEmpty ==
    /\ join.n = 0
    /\ join.out = << <<>> >>


-----------------------------------------------------------------------------

\* the call fails: its request does not build, or the transport returns an error
Fails(call) == call.kind \in {"builderr", "transporterr"}

\* C38: in DoGroupAsync every request gets its own goroutine and channel, whatever
\* the others do; a goroutine that has run has sent its one result, so the loop of
\* JoinAsyncResponses is not held up by a failed call; and the emitted list has an
\* entry for each request, at the index of a failed call its own error with a nil
\* response, at every other index the response of that call.
C38_FailuresIsolated ==
    mode = "group" =>
      /\ Len(calls) = join.n
      /\ Len(tasks) = join.n
      /\ Len(chans) = join.n
      /\ \A c \in 1..join.n :
           /\ calls[c].id = c
           /\ tasks[c] /= "run" => chans[c].sent = 1
           /\ (tasks[c] /= "run" /\ join.pc = "loop" /\ join.k = c) => CanRecv(chans[c])
      /\ join.out /= <<>> =>
           /\ Len(join.out[1]) = join.n
           /\ \A c \in 1..join.n :
                IF Fails(calls[c])
                THEN /\ join.out[1][c].Response.nil
                     /\ join.out[1][c].Error =
                          IF calls[c].kind = "builderr" THEN BuildError ELSE TransportError(c)
                ELSE /\ ~join.out[1][c].Response.nil
                     /\ join.out[1][c].Response.id = c
                     /\ join.out[1][c] = Do(autoBuffer, c, calls[c].kind)

\* a group of three whose first request does not build and whose third fails in the
\* transport, the second answered
C38_Witness ==
    /\ mode = "group"
    /\ join.n = 3
    /\ calls[1].kind = "builderr"
    /\ calls[2].kind = "ok"
    /\ calls[3].kind = "transporterr"
    /\ join.out /= <<>>
    /\ join.out[1][1] = [Response |-> NilResponse, Error |-> BuildError]
    /\ join.out[1][2].Response.id = 2
    /\ join.out[1][2].Error = NoErr
    /\ join.out[1][3] = [Response |-> NilResponse, Error |-> TransportError(3)]


-----------------------------------------------------------------------------

\* request-side events of layers 1..n of a chain, and response-side events of its
\* layers from..to, from the inner one outward
ReqEvents(exec, n) == [k \in 1..n |-> Ev("req", exec[k])]
RespEvents(exec, from, to) == [k \in 1..(from - to + 1) |-> Ev("resp", exec[from + 1 - k])]

\* what a call of the chain exec has run when its layers delegated down to layer
\* deepest and it stands at layer d, going in or coming out: the terminal has no
\* response side
TraceOf(exec, deepest, d, going) ==
    ReqEvents(exec, deepest)
      \o IF going = "in" THEN <<>>
         ELSE RespEvents(exec, IF deepest = Len(exec) THEN deepest - 1 ELSE deepest, d + 1)

\* C39: ChainMiddlewares over an empty list returns the terminal itself; the step
\* that builds a chain runs no layer and no terminal; a built chain is a function of
\* the arguments it was built from and does not change while it runs; and what a
\* call of it runs is determined by the chain and by how far its layers delegate.
C39_PureComposition ==
    [][/\ (chainPc = "config" /\ chainPc' = "in") =>
            /\ trace' = trace
            /\ trace' = <<>>
            /\ depth' = 0
            /\ chainExec' = ChainMiddlewares(Terminal, chainArgs')
            /\ (chainArgs' = <<>> => chainExec' = Terminal)
       /\ chainPc /= "config" =>
            /\ chainExec' = chainExec
            /\ chainArgs' = chainArgs
            /\ chainExec' = ChainMiddlewares(Terminal, chainArgs')
            /\ trace' = TraceOf(chainExec', Len(SelectSeq(trace', IsReq)), depth',
                                IF chainPc' = "in" THEN "in" ELSE "out")]_vars

\* ChainMiddlewares(final) with no middleware was called and its result invoked:
\* only the terminal ran
C39_Witness ==
    /\ caller = "direct"
    /\ chainArgs = <<>>
    /\ chainExec = Terminal
    /\ chainPc = "done"
    /\ trace = <<Ev("req", "T")>>

\* a chain of three was built and nothing has run yet
C39_WitnessBuilt ==
    /\ chainPc = "in"
    /\ Len(chainArgs) = 3
    /\ depth = 0
    /\ trace = <<>>


-----------------------------------------------------------------------------

\* the run is at the code after the loop
Exhausting == pc = "loop" /\ ~LoopContinues(i, attempts)

\* C40: the two implementations of RetryMiddleware take the same steps wherever the
\* attempts are not exhausted: from the same state, with the same outcome of next,
\* a step of the one is a step of the other (the other steps of the closure do not
\* read which implementation runs). After the loop they differ: src/gorest returns a
\* nil response and a wrapping error (or faults), src/unnamed the last (resp, err) as
\* it stands, which after a last 5xx is that response, drained and closed, and nil.
C40_SameUntilExhausted ==
    [][/\ variant' = variant
       /\ RetryInvokeAs("gorest") <=> RetryInvokeAs("unnamed")
       /\ ~Exhausting => ~(RetryExhaustedAs("gorest") \/ RetryExhaustedAs("unnamed"))
       /\ (Exhausting /\ pc' /= pc) =>
            /\ RetryExhaustedAs(variant)
            /\ ~RetryExhaustedAs(IF variant = "gorest" THEN "unnamed" ELSE "gorest")
            /\ variant = "unnamed" =>
                 /\ result' = Pair(resp, err)
                 /\ (history /= <<>> /\ history[Len(history)].kind = "resp"
                       /\ history[Len(history)].status >= 500) =>
                      /\ result' = Pair(Len(history), NoErr)
                      /\ history[Len(history)].hasBody =>
                           /\ history[Len(history)].drained
                           /\ history[Len(history)].closed]_vars

\* the second implementation returned the 500 of its third and last attempt, after
\* a 429 with an HTTP-date that both implementations waited out
C40_Witness ==
    /\ variant = "unnamed"
    /\ Returned
    /\ attempts = 3
    /\ Len(history) = 3
    /\ history[2].status = 429
    /\ history[2].retryAfter = <<"D", "3">>
    /\ history[3].status = 500
    /\ history[3].drained
    /\ history[3].closed
    /\ result = Pair(3, NoErr)

\* a run that did not exhaust its attempts, in the first implementation
C40_WitnessAgree ==
    /\ variant = "gorest"
    /\ Returned
    /\ attempts = 3
    /\ Len(history) = 2
    /\ history[1].status = 429
    /\ history[1].retryAfter = <<"D", "3">>
    /\ history[2].status = 200
    /\ result = Pair(2, NoErr)

====
